---- MODULE Spec2Model ----
(***************************************************************************)
(* Verification model of the HPC cryptominer orchestration core:           *)
(*   - AIOptimizer    (src/mining_engine/optimizer.py)                     *)
(*   - ClusterManager (src/orchestrator/cluster_manager.py)                *)
(*   - PoolManager    (src/mining_engine/pool_manager.py)                  *)
(*                                                                         *)
(* Floating point quantities are kept in fixed point: worker efficiency in *)
(* thousandths (EffScale), rejection rates in hundredths, the 256-bit      *)
(* target as tenths of the difficulty-1 target.  Clock values are seconds. *)
(***************************************************************************)
EXTENDS Integers, Sequences, FiniteSets, TLC

VARIABLES
    \* ---- AIOptimizer ----
    worker_efficiency,      \* worker id -> efficiency (thousandths); absent keys are not in DOMAIN
    performance_history,    \* sequence of PerformanceMetric
    rejection_history,      \* sequence of rejection records
    pool_performance,       \* pool name -> sequence of scores
    algorithm_performance,  \* algorithm -> sequence of hashrates
    active_segments,        \* segment id -> WorkSegment
    opt_call,               \* the last completed optimizer call, its inputs and its result
    opt_ops,                \* number of optimizer calls made so far
    \* ---- ClusterManager ----
    nodes,                  \* self.nodes: node id -> MiningNode
    entries,                \* the entry table of self.nodes (its iteration order)
    cluster_stats,          \* self.cluster_stats
    running,                \* self.running
    health_check_task,      \* self.health_check_task: "none", "alive", "cancelled"
    rebalance_task,         \* self.rebalance_task: "none", "alive", "cancelled"
    now,                    \* time.time()
    api_calls,              \* unregister_node / assign_work calls suspended in a node command
    api_ops,                \* number of API calls made so far
    immediate,              \* the _perform_immediate_rebalancing tasks
    periodic,               \* the position of _rebalance_loop
    health,                 \* the position of _health_check_loop
    stopping,               \* the position of stop()
    evictions,              \* node ids the running health pass has removed so far
    done,                   \* the step just taken: the call that completed or the command sent
    \* ---- PoolManager ----
    pools,                  \* self.pools: pool name -> PoolConnection
    pool_order,             \* the iteration order of self.pools
    active_work,            \* self.active_work: <<pool name, job id>> -> WorkUnit
    connection_threads,     \* self.connection_threads: pool name -> thread
    pool_running,           \* PoolManager.running
    shares_submitted,       \* self.shares_submitted
    shares_accepted,        \* self.shares_accepted
    shares_rejected,        \* self.shares_rejected
    sockets,                \* the sockets created so far: state and the messages written
    threads,                \* the _pool_connection_handler threads started so far
    submits,                \* submit_share calls (worker threads) inside socket.send
    main,                   \* the position of the caller of connect_to_pool / start
    ptime,                  \* time.time() as the pool client reads it
    wire,                   \* sent: the bytes a pool has put on a connection, pos: how many recv has returned
    dispatch_log,           \* the lines handed to _process_pool_message, when recorded
    recvs,                  \* number of recv calls that returned data so far
    pool_ops,               \* number of PoolManager calls made so far
    pool_call               \* the pool client step just taken

optVars == <<worker_efficiency, performance_history, rejection_history,
             pool_performance, algorithm_performance, active_segments,
             opt_call, opt_ops>>

clusterVars == <<nodes, entries, cluster_stats, running, health_check_task, rebalance_task,
                 now, api_calls, api_ops, immediate, periodic, health, stopping, evictions, done>>

poolVars == <<pools, pool_order, active_work, connection_threads, pool_running,
              shares_submitted, shares_accepted, shares_rejected, sockets, threads,
              submits, main, ptime, wire, dispatch_log, recvs, pool_ops, pool_call>>

vars == <<optVars, clusterVars, poolVars>>

Min(a, b) == IF a < b THEN a ELSE b
Max(a, b) == IF a > b THEN a ELSE b

(***************************************************************************)
(* Bounds                                                                  *)
(***************************************************************************)
MaxOptOps == 3          \* optimizer calls explored from each initial state
MaxSegOps == 2          \* of which calls of segment_work
MaxApiOps == 3          \* API calls (register, unregister, status update, assign) per run
MaxApiCalls == 1        \* API calls suspended in a node command at the same time
MaxEntries == 3         \* slots used in the entry table of self.nodes (no resize below 5)
MaxImmediate == 2       \* immediate rebalance tasks alive at the same time
MaxTime == 400          \* the clock stops here
TickSeconds == 200      \* clock granularity
MaxPoolOps == 2         \* PoolManager calls (start, connect, stop, submit, get_work) per run
MaxRecvs == 2           \* recv calls that return data per run
MaxSockets == 2         \* sockets created per run
MaxSubmits == 1         \* submit_share calls inside socket.send at the same time
MaxLines == 3            \* lines in a stream the pool sends
MaxPoolTime == 120      \* the pool client's clock stops here
ManyRejections == 25    \* rejections of one worker recorded before the calls explored
MaxShareCalls == 3      \* submit_share calls of worker threads per run

(***************************************************************************)
(* AIOptimizer                                                             *)
(***************************************************************************)
EffScale == 1000        \* 1.0 in thousandths
EffFloor == 100         \* 0.1
EffCeil  == 2000        \* 2.0
CleanRate == 2          \* rejection_rate < 0.02, in hundredths

Workers == {"w1", "w2"}

\* efficiencies a worker can have reached through the feedback rules
EffInit == {EffFloor, 101, 980, EffScale, 1010, 1990, EffCeil}

NoCall == [op |-> "none"]
EmptyDict == [x \in {} |-> 0]

\* self.worker_efficiency.get(worker_id, 1.0)
GetEfficiency(eff, w) == IF w \in DOMAIN eff THEN eff[w] ELSE EffScale

\* d[k] = v on a dict
DictSet(d, k, v) == [x \in DOMAIN d \cup {k} |-> IF x = k THEN v ELSE d[x]]

\* d[k].append(v) on a defaultdict(list)
DictAppend(d, k, v) ==
    [x \in DOMAIN d \cup {k} |->
        IF x = k THEN (IF k \in DOMAIN d THEN Append(d[k], v) ELSE <<v>>) ELSE d[x]]

\* the penalty without its floor
RejectionPenalty_NoFloor(e) == (e * 98) \div 100

\* max(0.1, current_efficiency * 0.98)
RejectionPenalty(e) == Max(EffFloor, (e * 98) \div 100)

\* min(2.0, current_efficiency * 1.01)
CleanReward(e) == Min(EffCeil, (e * 101) \div 100)

RejectResults == {[algorithm |-> "SHA256", reason |-> "unknown"]}

record_rejection(result, w) ==
    /\ opt_ops < MaxOptOps
    /\ rejection_history' = Append(rejection_history,
           [worker_id |-> w, algorithm |-> result.algorithm, reason |-> result.reason])
    /\ worker_efficiency' = DictSet(worker_efficiency, w,
           RejectionPenalty(GetEfficiency(worker_efficiency, w)))
    /\ opt_call' = [op |-> "record_rejection", worker |-> w,
                    before |-> GetEfficiency(worker_efficiency, w)]
    /\ opt_ops' = opt_ops + 1
    /\ UNCHANGED <<performance_history, pool_performance, algorithm_performance,
                   active_segments>>
    /\ UNCHANGED <<clusterVars, poolVars>>

\* telemetry samples: hashrate, rejection_rate (hundredths), algorithm, pool, worker_id
PerfSamples ==
    { [hashrate |-> 100, rejection_rate |-> 0, algorithm |-> "SHA256", pool |-> "NiceHash", worker_id |-> "w1"],
      [hashrate |-> 80,  rejection_rate |-> 1, algorithm |-> "",       pool |-> "",         worker_id |-> "w2"],
      [hashrate |-> 60,  rejection_rate |-> 2, algorithm |-> "Ethash", pool |-> "Ethermine", worker_id |-> "w1"],
      [hashrate |-> 40,  rejection_rate |-> 6, algorithm |-> "SHA256", pool |-> "NiceHash", worker_id |-> "w2"],
      [hashrate |-> 100, rejection_rate |-> 0, algorithm |-> "SHA256", pool |-> "NiceHash", worker_id |-> ""] }

record_performance(m) ==
    /\ opt_ops < MaxOptOps
    /\ performance_history' = Append(performance_history, m)
    /\ algorithm_performance' =
          IF m.algorithm # "" THEN DictAppend(algorithm_performance, m.algorithm, m.hashrate)
          ELSE algorithm_performance
    /\ pool_performance' =
          IF m.pool # ""
          THEN DictAppend(pool_performance, m.pool, (m.hashrate * (100 - m.rejection_rate)) \div 100)
          ELSE pool_performance
    /\ worker_efficiency' =
          IF m.worker_id # "" /\ m.rejection_rate < CleanRate
          THEN DictSet(worker_efficiency, m.worker_id,
                       CleanReward(GetEfficiency(worker_efficiency, m.worker_id)))
          ELSE worker_efficiency
    /\ opt_call' = [op |-> "record_performance", worker |-> m.worker_id,
                    rejection_rate |-> m.rejection_rate,
                    before |-> GetEfficiency(worker_efficiency, m.worker_id)]
    /\ opt_ops' = opt_ops + 1
    /\ UNCHANGED <<rejection_history, active_segments>>
    /\ UNCHANGED <<clusterVars, poolVars>>

\* ---- work segmentation ----
BaseSize(algorithm) ==
    CASE algorithm = "SHA256"   -> 1000000
      [] algorithm = "RandomX"  -> 100000
      [] algorithm = "Ethash"   -> 500000
      [] algorithm = "Scrypt"   -> 200000
      [] algorithm = "Yescrypt" -> 150000
      [] algorithm = "Kawpow"   -> 300000
      [] algorithm = "X11"      -> 400000
      [] OTHER                  -> 500000

\* target10 is the work's target in tenths of the difficulty-1 target
\* difficulty_factor = min(2.0, max(0.1, difficulty / diff1)); int(base_size * factor)
_calculate_base_segment_size(algorithm, target10) ==
    (BaseSize(algorithm) * Min(20, Max(1, target10))) \div 10

\* int(base_segment_size * worker_efficiency)
AdjustedSegmentSize(work, e) ==
    (_calculate_base_segment_size(work.algorithm, work.target10) * e) \div EffScale

RECURSIVE SegmentLoop(_, _, _, _, _, _)
SegmentLoop(current_nonce, segment_id, size, work, w, segments) ==
    IF current_nonce < work.nonce_end
    THEN LET segment_end == Min(current_nonce + size, work.nonce_end)
         IN  SegmentLoop(segment_end + 1, segment_id + 1, size, work, w,
                 Append(segments, [nonce_start |-> current_nonce,
                                   nonce_end |-> segment_end,
                                   segment_id |-> <<w, segment_id>>,
                                   original_work_id |-> work.job_id]))
    ELSE segments

Segments(work, w, e) == SegmentLoop(work.nonce_start, 0, AdjustedSegmentSize(work, e), work, w, <<>>)

\* self.active_segments[segment_id] = WorkSegment(...) for every emitted segment
TrackSegments(active, segs, w) ==
    LET ids == {segs[i].segment_id : i \in DOMAIN segs}
        SegOf(id) == CHOOSE i \in DOMAIN segs : segs[i].segment_id = id
    IN  [id \in DOMAIN active \cup ids |->
            IF id \in ids
            THEN [work_id |-> segs[SegOf(id)].original_work_id,
                  nonce_start |-> segs[SegOf(id)].nonce_start,
                  nonce_end |-> segs[SegOf(id)].nonce_end,
                  assigned_worker |-> w]
            ELSE active[id]]

NonceStarts == {0, 7}
NonceEnds   == {1000, 1001, 2002, 10007}
Works ==
    { [job_id |-> j, algorithm |-> a, target10 |-> t, nonce_start |-> s, nonce_end |-> e] :
        j \in {"job1", "job2"}, a \in {"RandomX"}, t \in {0, 10},
        s \in NonceStarts, e \in NonceEnds }

segment_work(work, w) ==
    /\ opt_ops < MaxSegOps
    /\ LET segs == Segments(work, w, GetEfficiency(worker_efficiency, w))
       IN  /\ active_segments' = TrackSegments(active_segments, segs, w)
           /\ opt_call' = [op |-> "segment_work", worker |-> w, work |-> work,
                           efficiency |-> GetEfficiency(worker_efficiency, w),
                           result |-> segs]
    /\ opt_ops' = opt_ops + 1
    /\ UNCHANGED <<worker_efficiency, performance_history, rejection_history,
                   pool_performance, algorithm_performance>>
    /\ UNCHANGED <<clusterVars, poolVars>>

\* AIOptimizer.__init__, with worker_efficiency as given
OptState(eff) ==
    /\ worker_efficiency = eff
    /\ performance_history = <<>>
    /\ rejection_history = <<>>
    /\ pool_performance = EmptyDict
    /\ algorithm_performance = EmptyDict
    /\ active_segments = EmptyDict
    /\ opt_call = NoCall
    /\ opt_ops = 0

OptInit == OptState(EmptyDict)

\* the optimizer after earlier feedback has moved the efficiencies
OptReached == \E eff \in UNION {[ws -> EffInit] : ws \in SUBSET Workers} : OptState(eff)

\* efficiency feedback: record_rejection and record_performance
EffNext ==
    \/ \E w \in Workers, r \in RejectResults : record_rejection(r, w)
    \/ \E m \in PerfSamples : record_performance(m)

\* segmentation of work units under the efficiencies the feedback produces
SegNext ==
    \/ \E work \in Works, w \in Workers : segment_work(work, w)
    \/ \E w \in Workers, r \in RejectResults : record_rejection(r, w)

(***************************************************************************)
(* ClusterManager: registry, derived statistics, node commands             *)
(* Memory sizes are in GiB, hashrates and power in whole units.            *)
(***************************************************************************)
node_timeout == 300
TempLimit    == 85

NodeIds == {"n1", "n2"}
Tomb    == "deleted"          \* a deleted slot of the dict's entry table
None    == "None"             \* Python's None where a string is expected

\* node_info of a registration: the hardware description
HardwareInfos ==
    { [cpu_cores |-> 8, cpu_threads |-> 16, gpu_count |-> 0, gpu_memory |-> 0,  total_memory |-> 32],
      [cpu_cores |-> 4, cpu_threads |-> 8,  gpu_count |-> 2, gpu_memory |-> 16, total_memory |-> 16] }

HotReading == [s \in {"gpu0"} |-> 90]

\* status_data of a status report; has_* tell whether the key is present
StatusReports ==
    { \* as built by the API endpoint: every key present, algorithm and pool left None
      [has_status |-> TRUE, status |-> "mining", hashrate |-> 50, temperature |-> HotReading,
       power_usage |-> 100, uptime |-> 10,
       has_algorithm |-> TRUE, algorithm |-> None, has_pool |-> TRUE, pool |-> None],
      \* metrics attached to a ping response: no status, algorithm or pool key
      [has_status |-> FALSE, status |-> "", hashrate |-> 70, temperature |-> EmptyDict,
       power_usage |-> 120, uptime |-> 20,
       has_algorithm |-> FALSE, algorithm |-> "", has_pool |-> FALSE, pool |-> ""] }

\* (algorithm, pool, work_segments) of an assignment
Assignments ==
    { [algorithm |-> "Ethash", pool |-> "poolA", work_segments |-> <<"seg1", "seg2">>] }

\* the node built without status="active": the dataclass default applies
NewNode_DefaultStatus(info, t) ==
    [status |-> "inactive", last_seen |-> t, hardware |-> info,
     hashrate |-> 0, temperature |-> EmptyDict, power_usage |-> 0, uptime |-> 0,
     assigned_algorithm |-> "", assigned_pool |-> "", work_segments |-> <<>>]

\* MiningNode(...) as built by register_node
NewNode(info, t) ==
    [status |-> "active", last_seen |-> t, hardware |-> info,
     hashrate |-> 0, temperature |-> EmptyDict, power_usage |-> 0, uptime |-> 0,
     assigned_algorithm |-> "", assigned_pool |-> "", work_segments |-> <<>>]

RECURSIVE SumOver(_, _, _)
SumOver(S, ns, field) ==
    IF S = {} THEN 0
    ELSE LET x == CHOOSE y \in S : TRUE
         IN  ns[x][field] + SumOver(S \ {x}, ns, field)

_calculate_hardware_score(node) ==
    node.hardware.cpu_cores * 10 + node.hardware.cpu_threads * 5
      + node.hardware.gpu_count * 50 + node.hardware.gpu_memory * 20
      + node.hardware.total_memory * 2

\* algorithm multipliers in tenths
AlgorithmMultiplier10(algorithm) ==
    CASE algorithm = "SHA256"  -> 10
      [] algorithm = "RandomX" -> 8
      [] algorithm = "Ethash"  -> 12
      [] algorithm = "Scrypt"  -> 6
      [] OTHER                 -> 10

\* hardware_score * multiplier * 1000
_expected_hashrate(node) ==
    _calculate_hardware_score(node) * AlgorithmMultiplier10(node.assigned_algorithm) * 100

RECURSIVE SumExpected(_, _)
SumExpected(S, ns) ==
    IF S = {} THEN 0
    ELSE LET x == CHOOSE y \in S : TRUE
         IN  _expected_hashrate(ns[x]) + SumExpected(S \ {x}, ns)

\* truthiness of an assigned algorithm or pool
Truthy(s) == s # "" /\ s # None

\* (total_actual / max(1, total_expected)) * 100, in whole percent
_calculate_cluster_efficiency(ns) ==
    LET mining == {n \in DOMAIN ns : ns[n].status = "mining"}
    IN  IF mining = {} THEN 0
        ELSE (SumOver(mining, ns, "hashrate") * 100) \div Max(1, SumExpected(mining, ns))

\* the ClusterStats that _update_cluster_stats stores
StatsOf(ns) ==
    LET active == {n \in DOMAIN ns : ns[n].status \in {"active", "mining"}}
        mining == {n \in DOMAIN ns : ns[n].status = "mining"}
    IN  [total_nodes |-> Cardinality(DOMAIN ns),
         active_nodes |-> Cardinality(active),
         total_hashrate |-> SumOver(mining, ns, "hashrate"),
         total_power |-> SumOver(mining, ns, "power_usage"),
         algorithms_running |-> {ns[n].assigned_algorithm : n \in {m \in mining : Truthy(ns[m].assigned_algorithm)}},
         pools_connected |-> {ns[n].assigned_pool : n \in {m \in mining : Truthy(ns[m].assigned_pool)}},
         efficiency_score |-> _calculate_cluster_efficiency(ns)]

\* ClusterStats()
EmptyStats ==
    [total_nodes |-> 0, active_nodes |-> 0, total_hashrate |-> 0, total_power |-> 0,
     algorithms_running |-> {}, pools_connected |-> {}, efficiency_score |-> 0]

\* ---- the dict self.nodes: a map plus the entry table that gives its iteration order ----
Remove(ns, id) == [x \in DOMAIN ns \ {id} |-> ns[x]]

\* self.nodes[id] = node: an existing key keeps its slot, a new key takes the next one
PutEntry(es, ns, id) == IF id \in DOMAIN ns THEN es ELSE Append(es, id)

\* del self.nodes[id]
DelEntry(es, id) == [i \in DOMAIN es |-> IF es[i] = id THEN Tomb ELSE es[i]]

\* the keys in iteration order
RECURSIVE Live(_)
Live(es) ==
    IF es = <<>> THEN <<>>
    ELSE IF Head(es) = Tomb THEN Live(Tail(es)) ELSE <<Head(es)>> \o Live(Tail(es))

\* position of the first live entry after position p, or 0
NextEntry(es, p) ==
    IF \E i \in DOMAIN es : i > p /\ es[i] # Tomb
    THEN CHOOSE i \in DOMAIN es : i > p /\ es[i] # Tomb /\ \A j \in DOMAIN es : (j > p /\ es[j] # Tomb) => i <= j
    ELSE 0

\* ---- rebalancing: analysis and recommendations ----
RECURSIVE Distinct(_)
Distinct(s) ==
    IF s = <<>> THEN <<>>
    ELSE LET rest == Distinct(SubSeq(s, 1, Len(s) - 1))
             x == s[Len(s)]
         IN  IF \E i \in DOMAIN rest : rest[i] = x THEN rest ELSE Append(rest, x)

RECURSIVE SeqSumHashrate(_, _)
SeqSumHashrate(ids, ns) ==
    IF ids = <<>> THEN 0 ELSE ns[Head(ids)].hashrate + SeqSumHashrate(Tail(ids), ns)

\* max(node.temperature.values(), default=0)
MaxTemp(temperature) ==
    IF DOMAIN temperature = {} THEN 0
    ELSE LET vals == {temperature[s] : s \in DOMAIN temperature}
         IN  CHOOSE v \in vals : \A u \in vals : v >= u

\* the mining nodes, in the iteration order of self.nodes
MiningSeq(ns, es) == SelectSeq(Live(es), LAMBDA n : ns[n].status = "mining")

\* analysis["algorithm_distribution"]: its keys in insertion order, and the members of a key
AlgorithmKeys(ns, es) ==
    LET withAlg == SelectSeq(MiningSeq(ns, es), LAMBDA n : Truthy(ns[n].assigned_algorithm))
    IN  Distinct([i \in DOMAIN withAlg |-> ns[withAlg[i]].assigned_algorithm])
AlgorithmMembers(ns, es, a) == SelectSeq(MiningSeq(ns, es), LAMBDA n : ns[n].assigned_algorithm = a)

\* analysis["pool_distribution"]
PoolKeys(ns, es) ==
    LET withPool == SelectSeq(MiningSeq(ns, es), LAMBDA n : Truthy(ns[n].assigned_pool))
    IN  Distinct([i \in DOMAIN withPool |-> ns[withPool[i]].assigned_pool])
PoolLoad(ns, es, p) == Len(SelectSeq(MiningSeq(ns, es), LAMBDA n : ns[n].assigned_pool = p))

NoRec == [type |-> "none", nodes |-> <<>>, from_pool |-> "", to_pool |-> "", nodes_to_move |-> 0]

\* one algorithm_switch recommendation per algorithm with nodes under 0.7 x the group average
RECURSIVE AlgorithmRecs(_, _, _)
AlgorithmRecs(keys, ns, es) ==
    IF keys = <<>> THEN <<>>
    ELSE LET members == AlgorithmMembers(ns, es, Head(keys))
             total == SeqSumHashrate(members, ns)
             underperforming ==
                 SelectSeq(members, LAMBDA n : ns[n].hashrate * Len(members) * 10 < total * 7)
             rest == AlgorithmRecs(Tail(keys), ns, es)
         IN  IF underperforming # <<>>
             THEN <<[NoRec EXCEPT !.type = "algorithm_switch", !.nodes = underperforming]>> \o rest
             ELSE rest

\* max(pool_loads, key=pool_loads.get) and min(...): the first key with the extreme load
FirstWithLoad(keys, ns, es, load) ==
    keys[CHOOSE i \in DOMAIN keys :
            /\ PoolLoad(ns, es, keys[i]) = load
            /\ \A j \in DOMAIN keys : PoolLoad(ns, es, keys[j]) = load => i <= j]

\* the imbalance test as max_load >= min_load * 2
PoolRecs_AtLeastTwice(ns, es) ==
    LET keys == PoolKeys(ns, es)
        loads == {PoolLoad(ns, es, keys[i]) : i \in DOMAIN keys}
        max_load == CHOOSE l \in loads : \A m \in loads : l >= m
        min_load == CHOOSE l \in loads : \A m \in loads : l <= m
    IN  IF keys # <<>> /\ max_load >= min_load * 2
        THEN <<[NoRec EXCEPT !.type = "pool_rebalance",
                             !.from_pool = FirstWithLoad(keys, ns, es, max_load),
                             !.to_pool = FirstWithLoad(keys, ns, es, min_load),
                             !.nodes_to_move = 1]>>
        ELSE <<>>

PoolRecs(ns, es) ==
    LET keys == PoolKeys(ns, es)
        loads == {PoolLoad(ns, es, keys[i]) : i \in DOMAIN keys}
        max_load == CHOOSE l \in loads : \A m \in loads : l >= m
        min_load == CHOOSE l \in loads : \A m \in loads : l <= m
    IN  IF keys # <<>> /\ max_load > min_load * 2
        THEN <<[NoRec EXCEPT !.type = "pool_rebalance",
                             !.from_pool = FirstWithLoad(keys, ns, es, max_load),
                             !.to_pool = FirstWithLoad(keys, ns, es, min_load),
                             !.nodes_to_move = 1]>>
        ELSE <<>>

\* one reduce_intensity recommendation per "High temperature" bottleneck
TemperatureRecs(ns, es) ==
    LET hot == SelectSeq(MiningSeq(ns, es), LAMBDA n : MaxTemp(ns[n].temperature) > TempLimit)
    IN  [i \in DOMAIN hot |-> [NoRec EXCEPT !.type = "reduce_intensity", !.nodes = <<hot[i]>>]]

\* _analyze_cluster_performance followed by _generate_optimization_recommendations
Recommendations(ns, es) ==
    AlgorithmRecs(AlgorithmKeys(ns, es), ns, es) \o PoolRecs(ns, es) \o TemperatureRecs(ns, es)

\* candidates.sort(key=lambda n: n.hashrate): a stable insertion sort
RECURSIVE SortByHashrate(_, _)
SortByHashrate(ids, ns) ==
    IF ids = <<>> THEN <<>>
    ELSE LET sorted == SortByHashrate(SubSeq(ids, 1, Len(ids) - 1), ns)
             x == ids[Len(ids)]
             k == Cardinality({i \in DOMAIN sorted : ns[sorted[i]].hashrate <= ns[x].hashrate})
         IN  SubSeq(sorted, 1, k) \o <<x>> \o SubSeq(sorted, k + 1, Len(sorted))

\* the nodes a recommendation is applied to, fixed when its application starts
TargetsOf(rec, ns, es) ==
    IF rec.type = "pool_rebalance"
    THEN LET candidates == SelectSeq(Live(es), LAMBDA n :
                               ns[n].assigned_pool = rec.from_pool /\ ns[n].status = "mining")
             sorted == SortByHashrate(candidates, ns)
         IN  SubSeq(sorted, 1, Min(rec.nodes_to_move, Len(sorted)))
    ELSE rec.nodes

\* _switch_node_algorithms: the algorithm chosen for a node's hardware
BestAlgorithm(node) ==
    IF node.hardware.gpu_count > 0 THEN "Ethash"
    ELSE IF node.hardware.cpu_threads >= 8 THEN "RandomX"
    ELSE "SHA256"

\* the command a recommendation sends to a node
CommandFor(rec, id, ns) ==
    CASE rec.type = "algorithm_switch" ->
            [command |-> "switch_algorithm", node |-> id, param |-> BestAlgorithm(ns[id])]
      [] rec.type = "pool_rebalance" ->
            [command |-> "switch_pool", node |-> id, param |-> rec.to_pool]
      [] OTHER ->
            [command |-> "reduce_intensity", node |-> id, param |-> "70"]

NoCommand == [command |-> "", node |-> "", param |-> ""]
\* a rebalance task: recs and targets are what is left of the batch, inflight the
\* command it awaits; batch (the recommendations it started from) and sent (the
\* commands that have returned, with their results) record its history
TaskPending  == [pc |-> "pending",  recs |-> <<>>, targets |-> <<>>, inflight |-> NoCommand,
                 batch |-> <<>>, sent |-> <<>>]
TaskSleeping == [TaskPending EXCEPT !.pc = "sleep"]
TaskFinished == [TaskPending EXCEPT !.pc = "finished"]
TaskOff      == [TaskPending EXCEPT !.pc = "off"]

\* _apply_optimizations, run from the current point up to the next awaited
\* _send_node_command or to the end of the batch; fresh: the head
\* recommendation has not been started
RECURSIVE ApplyRun(_, _, _, _, _)
ApplyRun(recs, targets, fresh, ns, es) ==
    IF recs = <<>> THEN TaskFinished
    ELSE IF fresh THEN ApplyRun(recs, TargetsOf(Head(recs), ns, es), FALSE, ns, es)
    ELSE IF targets = <<>> THEN ApplyRun(Tail(recs), <<>>, TRUE, ns, es)
    ELSE IF Head(recs).type = "pool_rebalance" \/ Head(targets) \in DOMAIN ns
         THEN [TaskPending EXCEPT !.pc = "apply", !.recs = recs, !.targets = Tail(targets),
                                  !.inflight = CommandFor(Head(recs), Head(targets), ns)]
         ELSE ApplyRun(recs, Tail(targets), FALSE, ns, es)

\* ---- in-flight calls ----
\* a call suspended in _send_node_command holds a reference to the MiningNode
\* object it read from self.nodes; orphan: that object is no longer the one
\* registered under the id (the id was removed or registered again)
OrphanCalls(calls, id) ==
    [i \in DOMAIN calls |-> IF calls[i].id = id THEN [calls[i] EXCEPT !.orphan = TRUE] ELSE calls[i]]

RemoveAt(s, i) == SubSeq(s, 1, i - 1) \o SubSeq(s, i + 1, Len(s))

\* _trigger_rebalancing: asyncio.create_task when the periodic task exists and is not done
Triggered(imm) == IF rebalance_task = "alive" THEN Append(imm, TaskPending) ELSE imm
CanTrigger == rebalance_task = "alive" => Len(immediate) < MaxImmediate

HealthSleeping ==
    [pc |-> "sleep", current_time |-> 0, pos |-> 0, size |-> 0, nodes_to_remove |-> <<>>,
     rm |-> 0, id |-> "", orphan |-> FALSE, held |-> <<>>]
HealthOff == [HealthSleeping EXCEPT !.pc = "off"]

OrphanHealth(h, id) == IF h.pc = "ping" /\ h.id = id THEN [h EXCEPT !.orphan = TRUE] ELSE h

StopIdle == [pc |-> "idle", pos |-> 0, size |-> 0, id |-> "", orphan |-> FALSE]
OrphanStop(s, id) == IF s.pc = "stop_node" /\ s.id = id THEN [s EXCEPT !.orphan = TRUE] ELSE s

ClusterInit ==
    /\ nodes = EmptyDict
    /\ entries = <<>>
    /\ cluster_stats = EmptyStats
    /\ running = FALSE
    /\ health_check_task = "none"
    /\ rebalance_task = "none"
    /\ now = 0
    /\ api_calls = <<>>
    /\ api_ops = 0
    /\ immediate = <<>>
    /\ periodic = TaskOff
    /\ health = HealthOff
    /\ stopping = StopIdle
    /\ evictions = <<>>
    /\ done = NoCall

\* ClusterManager.start
start ==
    /\ ~running
    /\ health_check_task = "none"
    /\ running' = TRUE
    /\ health_check_task' = "alive"
    /\ rebalance_task' = "alive"
    /\ health' = HealthSleeping
    /\ periodic' = TaskSleeping
    /\ done' = [op |-> "start"]
    /\ UNCHANGED <<nodes, entries, cluster_stats, now, api_calls, api_ops, immediate, stopping>>
    /\ UNCHANGED <<evictions, optVars, poolVars>>

\* time.time() advances
Tick ==
    /\ now + TickSeconds <= MaxTime
    /\ now' = now + TickSeconds
    /\ done' = [op |-> "tick"]
    /\ UNCHANGED <<nodes, entries, cluster_stats, running, health_check_task, rebalance_task,
                   api_calls, api_ops, immediate, periodic, health, stopping>>
    /\ UNCHANGED <<evictions, optVars, poolVars>>

\* ClusterManager.register_node
register_node(id, info) ==
    /\ api_ops < MaxApiOps
    /\ id \notin DOMAIN nodes => Len(entries) < MaxEntries
    /\ CanTrigger
    /\ nodes' = DictSet(nodes, id, NewNode(info, now))
    /\ entries' = PutEntry(entries, nodes, id)
    /\ cluster_stats' = StatsOf(nodes')
    /\ immediate' = Triggered(immediate)
    /\ api_calls' = IF id \in DOMAIN nodes THEN OrphanCalls(api_calls, id) ELSE api_calls
    /\ health' = IF id \in DOMAIN nodes THEN OrphanHealth(health, id) ELSE health
    /\ stopping' = IF id \in DOMAIN nodes THEN OrphanStop(stopping, id) ELSE stopping
    /\ api_ops' = api_ops + 1
    /\ done' = [op |-> "register_node", id |-> id, info |-> info,
                existed |-> id \in DOMAIN nodes,
                before |-> IF id \in DOMAIN nodes THEN nodes[id] ELSE NewNode(info, now),
                total_before |-> cluster_stats.total_nodes]
    /\ UNCHANGED <<running, health_check_task, rebalance_task, now, periodic>>
    /\ UNCHANGED <<evictions, optVars, poolVars>>

\* del self.nodes[id]; _update_cluster_stats(); _redistribute_work(id)
\* (the second half of unregister_node, after the awaited stop_mining command)
RemoveNode(id) ==
    /\ nodes' = Remove(nodes, id)
    /\ entries' = DelEntry(entries, id)
    /\ cluster_stats' = StatsOf(nodes')
    /\ immediate' = Triggered(immediate)

\* ClusterManager.unregister_node up to the awaited stop_mining command
unregister_node_begin(id) ==
    /\ api_ops < MaxApiOps
    /\ api_ops' = api_ops + 1
    /\ IF id \in DOMAIN nodes
       THEN /\ Len(api_calls) < MaxApiCalls
            /\ api_calls' = Append(api_calls,
                   [op |-> "unregister_node", id |-> id, orphan |-> FALSE,
                    held |-> nodes[id].work_segments, assignment |-> <<>>])
            /\ done' = [op |-> "command", command |-> "stop_mining", node |-> id]
       ELSE /\ api_calls' = api_calls
            /\ done' = [op |-> "unregister_node", id |-> id, found |-> FALSE,
                        raised |-> FALSE, held |-> <<>>]
    /\ UNCHANGED <<nodes, entries, cluster_stats, running, health_check_task, rebalance_task,
                   now, immediate, periodic, health, stopping>>
    /\ UNCHANGED <<evictions, optVars, poolVars>>

\* ClusterManager.unregister_node from the return of the stop_mining command
unregister_node_complete(i) ==
    /\ i \in DOMAIN api_calls
    /\ api_calls[i].op = "unregister_node"
    /\ LET call == api_calls[i]
       IN  IF call.id \in DOMAIN nodes
           THEN /\ CanTrigger
                /\ RemoveNode(call.id)
                /\ api_calls' = OrphanCalls(RemoveAt(api_calls, i), call.id)
                /\ health' = OrphanHealth(health, call.id)
                /\ stopping' = OrphanStop(stopping, call.id)
                /\ done' = [op |-> "unregister_node", id |-> call.id, found |-> TRUE,
                            raised |-> FALSE, held |-> call.held]
           ELSE \* del raises KeyError: the node was removed meanwhile
                /\ api_calls' = RemoveAt(api_calls, i)
                /\ done' = [op |-> "unregister_node", id |-> call.id, found |-> TRUE,
                            raised |-> TRUE, held |-> call.held]
                /\ UNCHANGED <<nodes, entries, cluster_stats, immediate, health, stopping>>
    /\ UNCHANGED <<running, health_check_task, rebalance_task, now, api_ops, periodic>>
    /\ UNCHANGED <<evictions, optVars, poolVars>>

\* the assignments of update_node_status to the node
ApplyReport(node, r, t) ==
    [node EXCEPT !.last_seen = t,
                 !.hashrate = r.hashrate,
                 !.temperature = r.temperature,
                 !.power_usage = r.power_usage,
                 !.uptime = r.uptime,
                 !.status = IF r.has_status THEN r.status ELSE "active",
                 !.assigned_algorithm = IF r.has_algorithm THEN r.algorithm ELSE @,
                 !.assigned_pool = IF r.has_pool THEN r.pool ELSE @]

\* update_node_status recomputing the statistics before it looks the node up
update_node_status_RecomputeFirst(id, r) ==
    /\ api_ops < MaxApiOps
    /\ api_ops' = api_ops + 1
    /\ nodes' = IF id \in DOMAIN nodes THEN [nodes EXCEPT ![id] = ApplyReport(@, r, now)] ELSE nodes
    /\ cluster_stats' = StatsOf(nodes')
    /\ done' = [op |-> "update_node_status", id |-> id, found |-> id \in DOMAIN nodes]
    /\ UNCHANGED <<entries, running, health_check_task, rebalance_task, now, api_calls,
                   immediate, periodic, health, stopping>>
    /\ UNCHANGED <<evictions, optVars, poolVars>>

\* ClusterManager.update_node_status
update_node_status(id, r) ==
    /\ api_ops < MaxApiOps
    /\ api_ops' = api_ops + 1
    /\ IF id \in DOMAIN nodes
       THEN /\ nodes' = [nodes EXCEPT ![id] = ApplyReport(@, r, now)]
            /\ cluster_stats' = StatsOf(nodes')
       ELSE UNCHANGED <<nodes, cluster_stats>>
    /\ done' = [op |-> "update_node_status", id |-> id, found |-> id \in DOMAIN nodes]
    /\ UNCHANGED <<entries, running, health_check_task, rebalance_task, now, api_calls,
                   immediate, periodic, health, stopping>>
    /\ UNCHANGED <<evictions, optVars, poolVars>>

\* ClusterManager.assign_work up to the awaited assign_work command
assign_work_begin(id, a) ==
    /\ api_ops < MaxApiOps
    /\ api_ops' = api_ops + 1
    /\ IF id \in DOMAIN nodes
       THEN /\ Len(api_calls) < MaxApiCalls
            /\ api_calls' = Append(api_calls,
                   [op |-> "assign_work", id |-> id, orphan |-> FALSE,
                    held |-> <<>>, assignment |-> a])
            /\ done' = [op |-> "command", command |-> "assign_work", node |-> id]
       ELSE /\ api_calls' = api_calls
            /\ done' = [op |-> "assign_work", id |-> id, found |-> FALSE, result |-> FALSE,
                        orphan |-> FALSE, assignment |-> a]
    /\ UNCHANGED <<nodes, entries, cluster_stats, running, health_check_task, rebalance_task,
                   now, immediate, periodic, health, stopping>>
    /\ UNCHANGED <<evictions, optVars, poolVars>>

\* the assignments of assign_work to the node after a successful command
ApplyAssignment(node, a) ==
    [node EXCEPT !.assigned_algorithm = a.algorithm,
                 !.assigned_pool = a.pool,
                 !.work_segments = a.work_segments,
                 !.status = "mining"]

\* assign_work applying the assignment without looking at the command's result
assign_work_complete_IgnoreResult(i, success) ==
    /\ i \in DOMAIN api_calls
    /\ api_calls[i].op = "assign_work"
    /\ LET call == api_calls[i]
       IN  /\ nodes' = IF ~call.orphan
                       THEN [nodes EXCEPT ![call.id] = ApplyAssignment(@, call.assignment)]
                       ELSE nodes
           /\ done' = [op |-> "assign_work", id |-> call.id, found |-> TRUE, result |-> success,
                       orphan |-> call.orphan, assignment |-> call.assignment]
    /\ api_calls' = RemoveAt(api_calls, i)
    /\ UNCHANGED <<entries, cluster_stats, running, health_check_task, rebalance_task, now,
                   api_ops, immediate, periodic, health, stopping>>
    /\ UNCHANGED <<evictions, optVars, poolVars>>

\* ClusterManager.assign_work from the return of _send_node_command;
\* success is False for a non-200 answer, success=false, an error or a timeout
assign_work_complete(i, success) ==
    /\ i \in DOMAIN api_calls
    /\ api_calls[i].op = "assign_work"
    /\ LET call == api_calls[i]
       IN  /\ nodes' = IF success /\ ~call.orphan
                       THEN [nodes EXCEPT ![call.id] = ApplyAssignment(@, call.assignment)]
                       ELSE nodes
           /\ done' = [op |-> "assign_work", id |-> call.id, found |-> TRUE, result |-> success,
                       orphan |-> call.orphan, assignment |-> call.assignment]
    /\ api_calls' = RemoveAt(api_calls, i)
    /\ UNCHANGED <<entries, cluster_stats, running, health_check_task, rebalance_task, now,
                   api_ops, immediate, periodic, health, stopping>>
    /\ UNCHANGED <<evictions, optVars, poolVars>>

\* ---- rebalance tasks ----
\* a batch starts: _analyze_cluster_performance, _generate_optimization_recommendations
\* and _apply_optimizations up to its first awaited command
BatchStart(ns, es) ==
    LET recs == Recommendations(ns, es)
    IN  [ApplyRun(recs, <<>>, TRUE, ns, es) EXCEPT !.batch = recs]

\* _apply_optimizations giving up the batch at the first failed command
BatchResume_AbortOnFailure(task, ok, ns, es) ==
    [(IF ok THEN ApplyRun(task.recs, task.targets, FALSE, ns, es) ELSE TaskFinished) EXCEPT
        !.batch = task.batch,
        !.sent = Append(task.sent, [command |-> task.inflight,
                                    rec |-> Len(task.batch) - Len(task.recs) + 1,
                                    ok |-> ok])]

\* the awaited _send_node_command returns ok and _apply_optimizations runs on
BatchResume(task, ok, ns, es) ==
    [ApplyRun(task.recs, task.targets, FALSE, ns, es) EXCEPT
        !.batch = task.batch,
        !.sent = Append(task.sent, [command |-> task.inflight,
                                    rec |-> Len(task.batch) - Len(task.recs) + 1,
                                    ok |-> ok])]

\* what a step of a rebalance task has done: sent a command or finished its batch
BatchDone(t, by) ==
    IF t.pc = "finished" THEN [op |-> "rebalance", by |-> by, batch |-> t.batch, sent |-> t.sent]
    ELSE [op |-> "command", command |-> t.inflight.command,
          node |-> t.inflight.node, param |-> t.inflight.param]

\* _perform_immediate_rebalancing starts running
immediate_rebalance_start(k) ==
    /\ k \in DOMAIN immediate
    /\ immediate[k].pc = "pending"
    /\ LET t == BatchStart(nodes, entries)
       IN  /\ immediate' = IF t.pc = "finished" THEN RemoveAt(immediate, k)
                           ELSE [immediate EXCEPT ![k] = t]
           /\ done' = BatchDone(t, "immediate")
    /\ UNCHANGED <<nodes, entries, cluster_stats, running, health_check_task, rebalance_task,
                   now, api_calls, api_ops, periodic, health, stopping>>
    /\ UNCHANGED <<evictions, optVars, poolVars>>

\* an immediate rebalance resumes when its _send_node_command returns
immediate_rebalance_resume(k, ok) ==
    /\ k \in DOMAIN immediate
    /\ immediate[k].pc = "apply"
    /\ LET t == BatchResume(immediate[k], ok, nodes, entries)
       IN  /\ immediate' = IF t.pc = "finished" THEN RemoveAt(immediate, k)
                           ELSE [immediate EXCEPT ![k] = t]
           /\ done' = BatchDone(t, "immediate")
    /\ UNCHANGED <<nodes, entries, cluster_stats, running, health_check_task, rebalance_task,
                   now, api_calls, api_ops, periodic, health, stopping>>
    /\ UNCHANGED <<evictions, optVars, poolVars>>

\* _rebalance_loop wakes from its sleep
rebalance_loop_wake ==
    /\ rebalance_task = "alive"
    /\ periodic.pc = "sleep"
    /\ LET t == IF Cardinality(DOMAIN nodes) < 2 THEN TaskFinished
                ELSE BatchStart(nodes, entries)
       IN  /\ periodic' = IF t.pc = "finished" THEN TaskSleeping ELSE t
           /\ done' = BatchDone(t, "periodic")
    /\ UNCHANGED <<nodes, entries, cluster_stats, running, health_check_task, rebalance_task,
                   now, api_calls, api_ops, immediate, health, stopping>>
    /\ UNCHANGED <<evictions, optVars, poolVars>>

\* the periodic rebalance resumes when its _send_node_command returns
rebalance_loop_resume(ok) ==
    /\ rebalance_task = "alive"
    /\ periodic.pc = "apply"
    /\ LET t == BatchResume(periodic, ok, nodes, entries)
       IN  /\ periodic' = IF t.pc = "finished" THEN TaskSleeping ELSE t
           /\ done' = BatchDone(t, "periodic")
    /\ UNCHANGED <<nodes, entries, cluster_stats, running, health_check_task, rebalance_task,
                   now, api_calls, api_ops, immediate, health, stopping>>
    /\ UNCHANGED <<evictions, optVars, poolVars>>

\* ---- health check loop ----
\* for node_id, node in self.nodes.items(): run from entry position pos up to the
\* next awaited ping, the end of the dict, or the RuntimeError a dict raises
\* when its size changed during the iteration
RECURSIVE Iterate(_, _, _, _, _, _)
Iterate(ns, es, pos, size, current_time, to_remove) ==
    IF Cardinality(DOMAIN ns) # size
    THEN [kind |-> "error", ns |-> ns, pos |-> pos, to_remove |-> to_remove]
    ELSE LET p == NextEntry(es, pos)
         IN  IF p = 0
             THEN [kind |-> "end", ns |-> ns, pos |-> pos, to_remove |-> to_remove]
             ELSE IF current_time - ns[es[p]].last_seen > node_timeout
                  THEN Iterate([ns EXCEPT ![es[p]].status = "error"], es, p, size,
                               current_time, Append(to_remove, es[p]))
                  ELSE [kind |-> "ping", ns |-> ns, pos |-> p, to_remove |-> to_remove]

\* for node_id in nodes_to_remove: await self.unregister_node(node_id), from index j:
\* the first id that is still registered suspends in its stop_mining command
FirstRegistered(ns, to_remove, j) ==
    IF \E k \in DOMAIN to_remove : k >= j /\ to_remove[k] \in DOMAIN ns
    THEN CHOOSE k \in DOMAIN to_remove :
            /\ k >= j /\ to_remove[k] \in DOMAIN ns
            /\ \A m \in DOMAIN to_remove : (m >= j /\ to_remove[m] \in DOMAIN ns) => k <= m
    ELSE 0

RemovalContinue(ns, h, j) ==
    LET k == FirstRegistered(ns, h.nodes_to_remove, j)
    IN  IF k = 0
        THEN [nodes |-> ns, recompute |-> TRUE, outcome |-> "health_pass",
              marked |-> h.nodes_to_remove, health |-> HealthSleeping]
        ELSE [nodes |-> ns, recompute |-> FALSE, outcome |-> "command",
              marked |-> h.nodes_to_remove, health |-> [h EXCEPT !.pc = "unregister", !.rm = k,
                                   !.id = h.nodes_to_remove[k], !.orphan = FALSE,
                                   !.held = ns[h.nodes_to_remove[k]].work_segments]]

\* one pass of _health_check_loop, run from the iteration position in h up to its next await
HealthContinue(ns, es, h) ==
    LET r == Iterate(ns, es, h.pos, h.size, h.current_time, h.nodes_to_remove)
    IN  CASE r.kind = "error" ->
                [nodes |-> r.ns, recompute |-> FALSE, outcome |-> "health_abort",
                 marked |-> r.to_remove, health |-> HealthSleeping]
          [] r.kind = "ping" ->
                [nodes |-> r.ns, recompute |-> FALSE, outcome |-> "command",
                 marked |-> r.to_remove,
                 health |-> [h EXCEPT !.pc = "ping", !.pos = r.pos, !.id = es[r.pos],
                                      !.orphan = FALSE, !.nodes_to_remove = r.to_remove]]
          [] OTHER ->
                RemovalContinue(r.ns, [h EXCEPT !.nodes_to_remove = r.to_remove], 1)

\* what a health loop step leaves in done: the command it is now suspended
\* in, or the end of the pass with the nodes it marked and the nodes it removed
HealthDone(c, evicted) ==
    IF c.outcome = "command"
    THEN [op |-> "command",
          command |-> IF c.health.pc = "ping" THEN "ping" ELSE "stop_mining",
          node |-> c.health.id]
    ELSE [op |-> c.outcome, marked |-> c.marked, evicted |-> evicted]

\* _health_check_loop wakes from its sleep and starts a pass
health_pass_start ==
    /\ health_check_task = "alive"
    /\ running
    /\ health.pc = "sleep"
    /\ LET h0 == [HealthSleeping EXCEPT !.current_time = now,
                                        !.size = Cardinality(DOMAIN nodes)]
           c == HealthContinue(nodes, entries, h0)
       IN  /\ nodes' = c.nodes
           /\ cluster_stats' = IF c.recompute THEN StatsOf(c.nodes) ELSE cluster_stats
           /\ health' = c.health
           /\ done' = HealthDone(c, <<>>)
    /\ UNCHANGED <<entries, running, health_check_task, rebalance_task, now, api_calls,
                   api_ops, immediate, periodic, stopping, evictions>>
    /\ UNCHANGED <<optVars, poolVars>>

\* answers to GET /api/ping: no answer, 200 without metrics, 200 with metrics
PingMetrics == {r \in StatusReports : ~r.has_status}
PingResponses ==
    {[ok |-> FALSE, has_metrics |-> FALSE, metrics |-> r] : r \in PingMetrics}
      \cup {[ok |-> TRUE, has_metrics |-> m, metrics |-> r] : m \in BOOLEAN, r \in PingMetrics}

\* _ping_node returns into the loop: node.last_seen and the attached metrics
ping_complete(resp) ==
    /\ health_check_task = "alive"
    /\ health.pc = "ping"
    /\ LET seen == IF resp.ok /\ ~health.orphan
                   THEN [nodes EXCEPT ![health.id].last_seen = now] ELSE nodes
           updated == resp.ok /\ resp.has_metrics /\ health.id \in DOMAIN nodes
           ns == IF updated THEN [seen EXCEPT ![health.id] = ApplyReport(@, resp.metrics, now)]
                 ELSE seen
           c == HealthContinue(ns, entries, health)
       IN  /\ nodes' = c.nodes
           /\ cluster_stats' = IF c.recompute THEN StatsOf(c.nodes)
                               ELSE IF updated THEN StatsOf(ns) ELSE cluster_stats
           /\ health' = c.health
           /\ done' = HealthDone(c, evictions)
           /\ evictions' = IF c.outcome = "command" THEN evictions ELSE <<>>
    /\ UNCHANGED <<entries, running, health_check_task, rebalance_task, now, api_calls,
                   api_ops, immediate, periodic, stopping>>
    /\ UNCHANGED <<optVars, poolVars>>

\* unregister_node called by the loop returns from its stop_mining command
health_unregister_complete ==
    /\ health_check_task = "alive"
    /\ health.pc = "unregister"
    /\ IF health.id \in DOMAIN nodes
       THEN /\ CanTrigger
            /\ LET c == RemovalContinue(Remove(nodes, health.id), health, health.rm + 1)
               IN  /\ nodes' = c.nodes
                   /\ cluster_stats' = StatsOf(c.nodes)
                   /\ health' = c.health
                   /\ done' = HealthDone(c, Append(evictions, health.id))
                   /\ evictions' = IF c.outcome = "command"
                                   THEN Append(evictions, health.id) ELSE <<>>
            /\ entries' = DelEntry(entries, health.id)
            /\ immediate' = Triggered(immediate)
            /\ api_calls' = OrphanCalls(api_calls, health.id)
       ELSE \* del raises KeyError; the loop's except clause ends the pass
            /\ health' = HealthSleeping
            /\ done' = [op |-> "health_abort", marked |-> health.nodes_to_remove,
                        evicted |-> evictions]
            /\ evictions' = <<>>
            /\ UNCHANGED <<nodes, entries, cluster_stats, immediate, api_calls>>
    /\ UNCHANGED <<running, health_check_task, rebalance_task, now, api_ops, periodic, stopping>>
    /\ UNCHANGED <<optVars, poolVars>>

\* ---- stop ----
\* _stop_all_nodes: for node in self.nodes.values(), up to the next awaited stop_mining
StopContinue(ns, es, s) ==
    IF Cardinality(DOMAIN ns) # s.size
    THEN [s EXCEPT !.pc = "raised"]
    ELSE LET p == NextEntry(es, s.pos)
         IN  IF p = 0 THEN [s EXCEPT !.pc = "stopped"]
             ELSE [s EXCEPT !.pc = "stop_node", !.pos = p, !.id = es[p], !.orphan = FALSE]

StopDone(s) ==
    IF s.pc = "stop_node" THEN [op |-> "command", command |-> "stop_mining", node |-> s.id]
    ELSE [op |-> "stop", raised |-> s.pc = "raised"]

\* ClusterManager.stop up to the first awaited stop_mining command
stop_begin ==
    /\ running
    /\ stopping.pc = "idle"
    /\ running' = FALSE
    /\ health_check_task' = "cancelled"
    /\ rebalance_task' = "cancelled"
    /\ health' = HealthOff
    /\ periodic' = TaskOff
    /\ evictions' = <<>>
    /\ stopping' = StopContinue(nodes, entries, [StopIdle EXCEPT !.size = Cardinality(DOMAIN nodes)])
    /\ done' = StopDone(stopping')
    /\ UNCHANGED <<nodes, entries, cluster_stats, now, api_calls, api_ops, immediate>>
    /\ UNCHANGED <<optVars, poolVars>>

\* the assignments of _stop_node_mining to the node
StoppedNode(node) ==
    [node EXCEPT !.status = "inactive", !.assigned_algorithm = "", !.assigned_pool = "",
                 !.work_segments = <<>>]

\* _stop_node_mining returns from its stop_mining command inside stop()
stop_node_complete ==
    /\ stopping.pc = "stop_node"
    /\ nodes' = IF stopping.orphan THEN nodes
                ELSE [nodes EXCEPT ![stopping.id] = StoppedNode(@)]
    /\ stopping' = StopContinue(nodes', entries, stopping)
    /\ done' = StopDone(stopping')
    /\ UNCHANGED <<entries, cluster_stats, running, health_check_task, rebalance_task, now,
                   api_calls, api_ops, immediate, periodic, health, evictions>>
    /\ UNCHANGED <<optVars, poolVars>>

\* ClusterManager.get_cluster_status: the statistics and the nodes, in dict order
get_cluster_status ==
    [stats |-> cluster_stats,
     nodes |-> [i \in DOMAIN Live(entries) |->
                   [node_id |-> Live(entries)[i], node |-> nodes[Live(entries)[i]]]]]

(***************************************************************************)
(* PoolManager: pool connections, receive threads, share submission.       *)
(* Targets are kept in units of 2^204 (the difficulty-1 target is 0xFFFF0) *)
(* and their hex rendering drops the 51 trailing zero digits.              *)
(***************************************************************************)
PingInterval == 60      \* seconds without a ping before the next one is sent
RecvTimeout  == 30      \* sock.settimeout(30)
StartTime    == 90      \* time.time() when the client starts (the epoch lies far more than 60s back)
Diff1Target  == 1048560 \* 0xFFFF0: the difficulty-1 target in units of 2^204
HexWidth     == 13      \* zfill(64), less the 51 digits dropped
NonceEndAll  == <<15, 15, 15, 15, 15, 15, 15, 15>>  \* 0xFFFFFFFF, as hex digits

\* the pools a caller configures: name, host and account
PoolConfigs ==
    { [name |-> "pool",  url |-> "a.io", username |-> "u1", password |-> "x"],
      [name |-> "pool2", url |-> "b.io", username |-> "u2", password |-> "x"] }
PoolNames == {c.name : c \in PoolConfigs}

\* the pool_url arguments of get_work and submit_share
PoolArgs == {"pool", "pool2"}

\* the characters of the strings that pool lookups compare
Chars(s) ==
    CASE s = "pool"  -> <<"p", "o", "o", "l">>
      [] s = "pool2" -> <<"p", "o", "o", "l", "2">>
      [] s = "a.io"  -> <<"a", ".", "i", "o">>
      [] s = "b.io"  -> <<"b", ".", "i", "o">>

\* Python's `sub in s` on strings
Contains(sub, s) ==
    LET a == Chars(sub)
        b == Chars(s)
    IN  \E i \in 0..(Len(b) - Len(a)) : SubSeq(b, i + 1, i + Len(a)) = a

\* the lookup loop of get_work and submit_share: the first pool, in dict
\* order, whose url or name occurs in pool_url; "" when there is none
RECURSIVE FindPool(_, _, _)
FindPool(ps, order, pool_url) ==
    IF order = <<>> THEN ""
    ELSE IF Contains(ps[Head(order)].url, pool_url) \/ Contains(Head(order), pool_url)
         THEN Head(order)
         ELSE FindPool(ps, Tail(order), pool_url)

\* hex(n)[2:] as a sequence of digits, most significant first
RECURSIVE HexDigits(_)
HexDigits(n) == IF n < 16 THEN <<n>> ELSE Append(HexDigits(n \div 16), n % 16)

\* str.zfill(width)
RECURSIVE ZFill(_, _)
ZFill(digits, width) == IF Len(digits) >= width THEN digits ELSE ZFill(<<0>> \o digits, width)

\* int(s, 16)
RECURSIVE FromHex(_)
FromHex(digits) ==
    IF digits = <<>> THEN 0
    ELSE 16 * FromHex(SubSeq(digits, 1, Len(digits) - 1)) + digits[Len(digits)]

\* the conversion without zfill
_difficulty_to_target_NoFill(difficulty) == HexDigits(Diff1Target \div difficulty)

\* PoolManager._difficulty_to_target
_difficulty_to_target(difficulty) == ZFill(HexDigits(Diff1Target \div difficulty), HexWidth)

NoWork == [empty |-> TRUE]      \* last_work = None
NoSocket == 0                   \* socket = None

\* PoolConnection as add_pool builds it
NewPool(c) ==
    [url |-> c.url, username |-> c.username, password |-> c.password,
     connected |-> FALSE, socket |-> NoSocket, last_work |-> NoWork,
     last_ping |-> 0, share_count |-> 0, difficulty |-> 1]

\* ---- the wire ----
JobIds == {"job1", "job2"}

\* mining.notify as the pool sends it: nparams entries in params, clean_jobs
\* being the ninth
Notifies ==
    { [method |-> "mining.notify", job_id |-> "job1", nparams |-> 9, clean_jobs |-> TRUE],
      [method |-> "mining.notify", job_id |-> "job2", nparams |-> 9, clean_jobs |-> TRUE],
      [method |-> "mining.notify", job_id |-> "job2", nparams |-> 9, clean_jobs |-> FALSE],
      [method |-> "mining.notify", job_id |-> "job1", nparams |-> 6, clean_jobs |-> TRUE] }

SetDifficulties == { [method |-> "mining.set_difficulty", difficulty |-> 2] }

ErrorNotes == { [error |-> "unknown"] }

\* what a pool answers to a request it has read: result true, or false/null
ResponsesTo(out) ==
    { [id |-> out[i].id, result |-> r] : i \in DOMAIN out, r \in BOOLEAN }

\* the requests of the client
SubscribeMessage == [id |-> 1, method |-> "mining.subscribe", params |-> <<"HpcMiner/1.0", "None">>]
AuthorizeMessage(pool) ==
    [id |-> 2, method |-> "mining.authorize", params |-> <<pool.username, pool.password>>]
PingMessage(t) == [id |-> t, method |-> "mining.ping", params |-> <<>>]
SubmitMessage(pool, result, t) ==
    [id |-> t, method |-> "mining.submit", params |-> <<pool.username, result.job_id>>]

\* mining results a worker submits
ShareResults == { [job_id |-> "job1"] }

\* bytes: the braces and the body of a JSON object, newline, blank, a byte
\* that is text but no JSON, a byte that is no UTF-8
Byte(kind) == [t |-> kind]
Newline == Byte("nl")
Blank   == Byte("sp")
Junk    == Byte("junk")
BadByte == Byte("bad")
Body(m) == [t |-> "body", m |-> m]

\* json.dumps(message) + "\n"
Encode(m) == <<Byte("{"), Body(m), Byte("}"), Newline>>

\* bytes.strip()
RECURSIVE Strip(_)
Strip(line) ==
    IF line = <<>> THEN line
    ELSE IF Head(line) = Blank THEN Strip(Tail(line))
    ELSE IF line[Len(line)] = Blank THEN Strip(SubSeq(line, 1, Len(line) - 1))
    ELSE line

\* line.decode('utf-8') raises UnicodeDecodeError
DecodeFails(line) == \E i \in DOMAIN line : line[i] = BadByte

\* json.loads(message) succeeds
IsJson(line) ==
    LET l == Strip(line)
    IN  Len(l) = 3 /\ l[1] = Byte("{") /\ l[2].t = "body" /\ l[3] = Byte("}")
Parsed(line) == Strip(line)[2].m

\* the position of the first newline in the buffer, 0 when there is none
RECURSIVE FirstNewline(_, _)
FirstNewline(buffer, i) ==
    IF i > Len(buffer) THEN 0
    ELSE IF buffer[i] = Newline THEN i
    ELSE FirstNewline(buffer, i + 1)

\* ---- inbound dispatch ----
\* what the handlers of a receive thread read and write
Shared == [pools |-> pools, active_work |-> active_work,
           shares_accepted |-> shares_accepted, shares_rejected |-> shares_rejected]

\* PoolManager._handle_mining_notify
_handle_mining_notify(st, p, m, t) ==
    IF m.nparams >= 7
    THEN LET work == [job_id |-> m.job_id, algorithm |-> "SHA256",
                      target |-> _difficulty_to_target(st.pools[p].difficulty),
                      height |-> 0, timestamp |-> t, pool_name |-> p,
                      difficulty |-> st.pools[p].difficulty]
         IN  [st EXCEPT !.active_work = DictSet(@, <<p, m.job_id>>, work),
                        !.pools[p].last_work = work]
    ELSE st

\* PoolManager._handle_set_difficulty
_handle_set_difficulty(st, p, m) == [st EXCEPT !.pools[p].difficulty = m.difficulty]

\* PoolManager._handle_pool_response
_handle_pool_response(st, p, m) ==
    IF "id" \in DOMAIN m
    THEN IF m.result THEN [st EXCEPT !.shares_accepted = @ + 1]
                     ELSE [st EXCEPT !.shares_rejected = @ + 1]
    ELSE st

\* PoolManager._process_pool_message on a line that parsed
_process_pool_message(st, p, m, t) ==
    IF "method" \in DOMAIN m
    THEN CASE m.method = "mining.notify" -> _handle_mining_notify(st, p, m, t)
           [] m.method = "mining.set_difficulty" -> _handle_set_difficulty(st, p, m)
           [] OTHER -> st
    ELSE IF "result" \in DOMAIN m THEN _handle_pool_response(st, p, m)
    ELSE st

\* the inner loop of the receive thread: split the buffer at each newline and
\* process the lines; raised: line.decode raised, which ends the thread
RECURSIVE Drain(_, _, _, _, _)
Drain(st, p, buffer, log, t) ==
    LET i == FirstNewline(buffer, 1)
        line == SubSeq(buffer, 1, i - 1)
        rest == SubSeq(buffer, i + 1, Len(buffer))
    IN  IF i = 0 THEN [st |-> st, buffer |-> buffer, log |-> log, raised |-> FALSE]
        ELSE IF Strip(line) = <<>> THEN Drain(st, p, rest, log, t)
        ELSE IF DecodeFails(line)
             THEN [st |-> st, buffer |-> rest, log |-> log, raised |-> TRUE]
        ELSE IF IsJson(line)
             THEN Drain(_process_pool_message(st, p, Parsed(line), t), p, rest,
                        Append(log, Parsed(line)), t)
        ELSE Drain(st, p, rest, log, t)

\* ---- receive threads ----
NoWire == [sent |-> <<>>, pos |-> 0]

\* recv_at: when the pending recv was called; heard: when the connection was made or
\* last delivered data
NewThread(p, t) ==
    [pool |-> p, pc |-> "start", sock |-> NoSocket, buffer |-> <<>>, recv_at |-> 0, heard |-> t]

CloseSocket(socks, k) == IF k = NoSocket THEN socks ELSE [socks EXCEPT ![k].state = "closed"]

\* the cleanup at the end of _pool_connection_handler
Cleanup(ps, socks, p) ==
    [pools |-> [ps EXCEPT ![p].connected = FALSE, ![p].socket = NoSocket],
     sockets |-> CloseSocket(socks, ps[p].socket)]

\* the thread ends: cleanup
ThreadEnd(th, ps, socks) ==
    LET c == Cleanup(ps, socks, th.pool)
    IN  [thread |-> [th EXCEPT !.pc = "ended", !.sock = NoSocket, !.buffer = <<>>],
         pools |-> c.pools, sockets |-> c.sockets]

\* the head of the while loop up to the call of pool.socket.recv: the thread
\* ends when the loop condition is false or pool.socket is None
LoopTop(th, ps, socks, is_running, t) ==
    IF is_running /\ ps[th.pool].connected /\ ps[th.pool].socket # NoSocket
    THEN [thread |-> [th EXCEPT !.pc = "recv", !.sock = ps[th.pool].socket, !.recv_at = t],
          pools |-> ps, sockets |-> socks]
    ELSE ThreadEnd(th, ps, socks)

\* the writes a receive-thread step leaves behind
ThreadStep(t, r) ==
    /\ threads' = [threads EXCEPT ![t] = r.thread]
    /\ pools' = r.pools
    /\ sockets' = r.sockets

\* a receive thread starts running
handler_start(t) ==
    /\ t \in DOMAIN threads
    /\ threads[t].pc = "start"
    /\ ThreadStep(t, LoopTop(threads[t], pools, sockets, pool_running, ptime))
    /\ pool_call' = [op |-> "handler_start", thread |-> t, pool |-> threads[t].pool]
    /\ UNCHANGED <<pool_order, active_work, connection_threads, pool_running,
                   shares_submitted, shares_accepted, shares_rejected, submits, main,
                   ptime, wire, dispatch_log, recvs, pool_ops>>
    /\ UNCHANGED <<optVars, clusterVars>>

\* recv returned data: buffer it, process the complete lines, loop
Receive(t, data, record) ==
    LET th == threads[t]
        d == Drain(Shared, th.pool, th.buffer \o data, <<>>, ptime)
        th2 == [th EXCEPT !.buffer = d.buffer, !.heard = ptime]
        r == IF d.raised THEN ThreadEnd(th2, d.st.pools, sockets)
             ELSE LoopTop(th2, d.st.pools, sockets, pool_running, ptime)
    IN  /\ ThreadStep(t, r)
        /\ active_work' = d.st.active_work
        /\ shares_accepted' = d.st.shares_accepted
        /\ shares_rejected' = d.st.shares_rejected
        /\ dispatch_log' = IF record THEN dispatch_log \o d.log ELSE dispatch_log
        /\ recvs' = recvs + 1
        /\ pool_call' = [op |-> "recv", thread |-> t, pool |-> th.pool, data |-> data,
                         dispatched |-> d.log, raised |-> d.raised,
                         before |-> pools[th.pool]]

\* recv returns one whole line: a message of the pool
recv_line(t, m) ==
    /\ t \in DOMAIN threads
    /\ threads[t].pc = "recv"
    /\ sockets[threads[t].sock].state = "open"
    /\ recvs < MaxRecvs
    /\ wire = NoWire
    /\ m \in Notifies \cup SetDifficulties \cup ErrorNotes \cup ResponsesTo(sockets[threads[t].sock].out)
    /\ Receive(t, Encode(m), FALSE)
    /\ UNCHANGED <<pool_order, connection_threads, pool_running, shares_submitted,
                   submits, main, ptime, wire, pool_ops>>
    /\ UNCHANGED <<optVars, clusterVars>>

\* recv returns the next n bytes of what the pool has sent
recv_bytes(t, n) ==
    /\ t \in DOMAIN threads
    /\ threads[t].pc = "recv"
    /\ sockets[threads[t].sock].state = "open"
    /\ n \in 1..(Len(wire.sent) - wire.pos)
    /\ Receive(t, SubSeq(wire.sent, wire.pos + 1, wire.pos + n), TRUE)
    /\ wire' = [wire EXCEPT !.pos = @ + n]
    /\ UNCHANGED <<pool_order, connection_threads, pool_running, shares_submitted,
                   submits, main, ptime, pool_ops>>
    /\ UNCHANGED <<optVars, clusterVars>>

\* recv returns b"" (kind "eof", the pool closed the connection) or raises a
\* socket error other than a timeout (kind "error"): the loop breaks
recv_fail(t, kind) ==
    /\ t \in DOMAIN threads
    /\ threads[t].pc = "recv"
    /\ kind = "eof" => sockets[threads[t].sock].state = "open"
    /\ ThreadStep(t, ThreadEnd(threads[t], pools, sockets))
    /\ pool_call' = [op |-> "recv_" \o kind, thread |-> t, pool |-> threads[t].pool]
    /\ UNCHANGED <<pool_order, active_work, connection_threads, pool_running,
                   shares_submitted, shares_accepted, shares_rejected, submits, main,
                   ptime, wire, dispatch_log, recvs, pool_ops>>
    /\ UNCHANGED <<optVars, clusterVars>>

\* ---- sending ----
\* the test of _send_json_message before it writes
CanSend(ps, p) == ps[p].socket # NoSocket /\ ps[p].connected

\* socket.send returned: the message is on the wire
Written(socks, k, message) == [socks EXCEPT ![k].out = Append(@, message)]

\* _send_json_message swallowing the exception without marking the pool
SendFailed_KeepConnected(ps, p) == ps

\* socket.send raised: _send_json_message marks the pool disconnected
SendFailed(ps, p) == [ps EXCEPT ![p].connected = FALSE]

\* the sends that are inside socket.send on socket k
WritersOn(k) ==
    Cardinality({i \in DOMAIN submits : submits[i].sock = k})
      + Cardinality({t \in DOMAIN threads : threads[t].pc = "ping" /\ threads[t].sock = k})
      + (IF main.pc \in {"subscribe_send", "authorize_send"} /\ main.sock = k THEN 1 ELSE 0)

\* recv timed out: a ping is sent when the last one is more than 60s old
recv_timeout(t) ==
    /\ t \in DOMAIN threads
    /\ threads[t].pc = "recv"
    /\ sockets[threads[t].sock].state = "open"
    /\ ptime - threads[t].recv_at >= RecvTimeout
    /\ LET th == threads[t]
           p == th.pool
           due == ptime - pools[p].last_ping > PingInterval
       IN  IF due /\ CanSend(pools, p)
           THEN /\ threads' = [threads EXCEPT ![t].pc = "ping", ![t].sock = pools[p].socket]
                /\ UNCHANGED <<pools, sockets>>
                /\ pool_call' = [op |-> "recv_timeout", thread |-> t, pool |-> p, ping |-> TRUE]
           ELSE /\ ThreadStep(t, LoopTop(th, IF due THEN [pools EXCEPT ![p].last_ping = ptime]
                                                   ELSE pools,
                                         sockets, pool_running, ptime))
                /\ pool_call' = [op |-> "recv_timeout", thread |-> t, pool |-> p, ping |-> FALSE]
    /\ UNCHANGED <<pool_order, active_work, connection_threads, pool_running,
                   shares_submitted, shares_accepted, shares_rejected, submits, main,
                   ptime, wire, dispatch_log, recvs, pool_ops>>
    /\ UNCHANGED <<optVars, clusterVars>>

\* the send of the ping returns (ok) or raises; last_ping is set and the loop continues
ping_complete_send(t, ok) ==
    /\ t \in DOMAIN threads
    /\ threads[t].pc = "ping"
    /\ ok => sockets[threads[t].sock].state = "open"
    /\ LET th == threads[t]
           p == th.pool
           ps == IF ok THEN pools ELSE SendFailed(pools, p)
           socks == IF ok THEN Written(sockets, th.sock, PingMessage(ptime)) ELSE sockets
       IN  /\ ThreadStep(t, LoopTop(th, [ps EXCEPT ![p].last_ping = ptime], socks,
                                    pool_running, ptime))
           /\ pool_call' = [op |-> "send", by |-> "ping", pool |-> p, sock |-> th.sock,
                            failed |-> ~ok, thread |-> t]
    /\ UNCHANGED <<pool_order, active_work, connection_threads, pool_running,
                   shares_submitted, shares_accepted, shares_rejected, submits, main,
                   ptime, wire, dispatch_log, recvs, pool_ops>>
    /\ UNCHANGED <<optVars, clusterVars>>

\* ---- the caller of the coroutines ----
\* created: the socket the running connect_to_pool has opened; sock: the one it writes to
MainIdle == [pc |-> "idle", pool |-> "", sock |-> NoSocket, created |-> NoSocket, todo |-> <<>>]

\* PoolManager.add_pool, for a name that is not configured yet
add_pool(c) ==
    /\ main.pc = "idle" /\ main.todo = <<>>
    /\ c.name \notin DOMAIN pools
    /\ pools' = DictSet(pools, c.name, NewPool(c))
    /\ pool_order' = Append(pool_order, c.name)
    /\ pool_call' = [op |-> "add_pool", pool |-> c.name]
    /\ UNCHANGED <<active_work, connection_threads, pool_running, shares_submitted,
                   shares_accepted, shares_rejected, sockets, threads, submits, main,
                   ptime, wire, dispatch_log, recvs, pool_ops>>
    /\ UNCHANGED <<optVars, clusterVars>>

\* connect_to_pool up to the call of _send_subscribe; ok: sock.connect succeeded
ConnectBody(name, ok, todo) ==
    IF name \notin DOMAIN pools
    THEN /\ main' = [MainIdle EXCEPT !.todo = todo]
         /\ pool_call' = [op |-> "connect_to_pool", pool |-> name, result |-> FALSE]
         /\ UNCHANGED <<pools, sockets, threads, connection_threads>>
    ELSE IF ~ok
    THEN /\ pools' = [pools EXCEPT ![name].connected = FALSE]
         /\ main' = [MainIdle EXCEPT !.todo = todo]
         /\ pool_call' = [op |-> "connect_to_pool", pool |-> name, result |-> FALSE]
         /\ UNCHANGED <<sockets, threads, connection_threads>>
    ELSE /\ Len(sockets) < MaxSockets
         /\ sockets' = Append(sockets, [state |-> "open", out |-> <<>>, pool |-> name])
         /\ pools' = [pools EXCEPT ![name].socket = Len(sockets) + 1, ![name].connected = TRUE]
         /\ threads' = Append(threads, NewThread(name, ptime))
         /\ connection_threads' = DictSet(connection_threads, name, Len(threads) + 1)
         /\ main' = [pc |-> "subscribe", pool |-> name, sock |-> NoSocket,
                      created |-> Len(sockets) + 1, todo |-> todo]
         /\ pool_call' = [op |-> "connected", pool |-> name, sock |-> Len(sockets) + 1,
                          was_connected |-> pools[name].connected,
                          old_socket |-> pools[name].socket]

\* PoolManager.connect_to_pool called by the user of the client
connect_to_pool(name, ok) ==
    /\ main.pc = "idle" /\ main.todo = <<>>
    /\ pool_ops < MaxPoolOps
    /\ pool_ops' = pool_ops + 1
    /\ ConnectBody(name, ok, <<>>)
    /\ UNCHANGED <<pool_order, active_work, pool_running, shares_submitted, shares_accepted,
                   shares_rejected, submits, ptime, wire, dispatch_log, recvs>>
    /\ UNCHANGED <<optVars, clusterVars>>

\* PoolManager.start: running is set, then every configured pool is connected in turn
start_pools ==
    /\ main.pc = "idle" /\ main.todo = <<>>
    /\ pool_ops < MaxPoolOps
    /\ pool_ops' = pool_ops + 1
    /\ pool_running' = TRUE
    /\ main' = [MainIdle EXCEPT !.todo = pool_order]
    /\ pool_call' = [op |-> "start"]
    /\ UNCHANGED <<pools, pool_order, active_work, connection_threads, shares_submitted,
                   shares_accepted, shares_rejected, sockets, threads, submits, ptime,
                   wire, dispatch_log, recvs>>
    /\ UNCHANGED <<optVars, clusterVars>>

\* start calls connect_to_pool for the next pool
start_connect(ok) ==
    /\ main.pc = "idle" /\ main.todo # <<>>
    /\ ConnectBody(Head(main.todo), ok, Tail(main.todo))
    /\ UNCHANGED <<pool_order, active_work, pool_running, shares_submitted, shares_accepted,
                   shares_rejected, submits, ptime, wire, dispatch_log, recvs, pool_ops>>
    /\ UNCHANGED <<optVars, clusterVars>>

\* the test of _send_json_message for a message of the handshake: the caller
\* enters socket.send, or skips the message when the pool has no socket or is
\* not connected
HandshakeBegin(sending, skipped) ==
    IF CanSend(pools, main.pool)
    THEN /\ main' = [main EXCEPT !.pc = sending, !.sock = pools[main.pool].socket]
         /\ pool_call' = [op |-> "send_begin", by |-> main.pc, pool |-> main.pool,
                          sock |-> pools[main.pool].socket]
    ELSE /\ main' = IF skipped = "idle" THEN [MainIdle EXCEPT !.todo = main.todo]
                    ELSE [main EXCEPT !.pc = skipped]
         /\ pool_call' = IF skipped = "idle"
                         THEN [op |-> "connect_to_pool", pool |-> main.pool, result |-> TRUE,
                               created |-> main.created, failed |-> FALSE]
                         ELSE [op |-> "send_skipped", by |-> main.pc, pool |-> main.pool]

\* _send_subscribe reaches the send of mining.subscribe
subscribe_begin ==
    /\ main.pc = "subscribe"
    /\ HandshakeBegin("subscribe_send", "authorize")
    /\ UNCHANGED <<pools, pool_order, active_work, connection_threads, pool_running,
                   shares_submitted, shares_accepted, shares_rejected, sockets, threads,
                   submits, ptime, wire, dispatch_log, recvs, pool_ops>>
    /\ UNCHANGED <<optVars, clusterVars>>

\* _send_subscribe reaches the send of mining.authorize
authorize_begin ==
    /\ main.pc = "authorize"
    /\ HandshakeBegin("authorize_send", "idle")
    /\ UNCHANGED <<pools, pool_order, active_work, connection_threads, pool_running,
                   shares_submitted, shares_accepted, shares_rejected, sockets, threads,
                   submits, ptime, wire, dispatch_log, recvs, pool_ops>>
    /\ UNCHANGED <<optVars, clusterVars>>

\* the send of the subscribe message returns or raises
subscribe_complete(ok) ==
    /\ main.pc = "subscribe_send"
    /\ ok => sockets[main.sock].state = "open"
    /\ pools' = IF ok THEN pools ELSE SendFailed(pools, main.pool)
    /\ sockets' = IF ok THEN Written(sockets, main.sock, SubscribeMessage) ELSE sockets
    /\ main' = [main EXCEPT !.pc = "authorize", !.sock = NoSocket]
    /\ pool_call' = [op |-> "send", by |-> "subscribe", pool |-> main.pool,
                     sock |-> main.sock, failed |-> ~ok]
    /\ UNCHANGED <<pool_order, active_work, connection_threads, pool_running,
                   shares_submitted, shares_accepted, shares_rejected, threads, submits,
                   ptime, wire, dispatch_log, recvs, pool_ops>>
    /\ UNCHANGED <<optVars, clusterVars>>

\* the send of the authorize message returns or raises; connect_to_pool returns True
authorize_complete(ok) ==
    /\ main.pc = "authorize_send"
    /\ ok => sockets[main.sock].state = "open"
    /\ pools' = IF ok THEN pools ELSE SendFailed(pools, main.pool)
    /\ sockets' = IF ok THEN Written(sockets, main.sock, AuthorizeMessage(pools[main.pool]))
                  ELSE sockets
    /\ main' = [MainIdle EXCEPT !.todo = main.todo]
    /\ pool_call' = [op |-> "connect_to_pool", pool |-> main.pool, result |-> TRUE,
                     created |-> main.created, failed |-> ~ok]
    /\ UNCHANGED <<pool_order, active_work, connection_threads, pool_running,
                   shares_submitted, shares_accepted, shares_rejected, threads, submits,
                   ptime, wire, dispatch_log, recvs, pool_ops>>
    /\ UNCHANGED <<optVars, clusterVars>>

\* the loop of stop() over the pools: close the socket of each pool that has one
RECURSIVE StopPools(_, _, _)
StopPools(ps, socks, order) ==
    IF order = <<>> THEN [pools |-> ps, sockets |-> socks]
    ELSE LET p == Head(order)
         IN  IF ps[p].socket # NoSocket
             THEN StopPools([ps EXCEPT ![p].connected = FALSE],
                            CloseSocket(socks, ps[p].socket), Tail(order))
             ELSE StopPools(ps, socks, Tail(order))

\* PoolManager.stop; the joins give up after their timeout
stop_pools ==
    /\ main.pc = "idle" /\ main.todo = <<>>
    /\ pool_ops < MaxPoolOps
    /\ pool_ops' = pool_ops + 1
    /\ pool_running' = FALSE
    /\ LET r == StopPools(pools, sockets, pool_order)
       IN  pools' = r.pools /\ sockets' = r.sockets
    /\ pool_call' = [op |-> "stop"]
    /\ UNCHANGED <<pool_order, active_work, connection_threads, shares_submitted,
                   shares_accepted, shares_rejected, threads, submits, main, ptime,
                   wire, dispatch_log, recvs>>
    /\ UNCHANGED <<optVars, clusterVars>>

\* ---- mining workers ----
\* PoolManager.get_work
get_work(pool_url) ==
    LET target_pool == FindPool(pools, pool_order, pool_url)
    IN  IF target_pool = "" \/ ~pools[target_pool].connected THEN NoWork
        ELSE IF pools[target_pool].last_work = NoWork THEN NoWork
        ELSE LET work == pools[target_pool].last_work
             IN  [job_id |-> work.job_id, algorithm |-> work.algorithm,
                  height |-> work.height, timestamp |-> work.timestamp,
                  pool_name |-> work.pool_name, difficulty |-> work.difficulty,
                  nonce_start |-> 0, nonce_end |-> NonceEndAll,
                  target |-> FromHex(work.target)]

\* a worker calls get_work
get_work_call(pool_url) ==
    /\ pool_ops < MaxPoolOps
    /\ pool_ops' = pool_ops + 1
    /\ pool_call' = [op |-> "get_work", pool_url |-> pool_url, result |-> get_work(pool_url)]
    /\ UNCHANGED <<pools, pool_order, active_work, connection_threads, pool_running,
                   shares_submitted, shares_accepted, shares_rejected, sockets, threads,
                   submits, main, ptime, wire, dispatch_log, recvs>>
    /\ UNCHANGED <<optVars, clusterVars>>

\* submit_share up to socket.send; it returns False for an unknown or
\* disconnected pool, and True without sending when the pool has no socket
submit_share_begin(pool_url, result) ==
    /\ pool_ops < MaxPoolOps
    /\ pool_ops' = pool_ops + 1
    /\ LET target_pool == FindPool(pools, pool_order, pool_url)
       IN  IF target_pool = "" \/ ~pools[target_pool].connected
           THEN /\ pool_call' = [op |-> "submit_share", pool_url |-> pool_url,
                                 pool |-> target_pool, result |-> FALSE, sent |-> FALSE]
                /\ UNCHANGED <<pools, submits, shares_submitted>>
           ELSE IF CanSend(pools, target_pool)
           THEN /\ Len(submits) < MaxSubmits
                /\ submits' = Append(submits, [pool |-> target_pool, pool_url |-> pool_url,
                                               sock |-> pools[target_pool].socket,
                                               message |-> SubmitMessage(pools[target_pool],
                                                                         result, ptime)])
                /\ pool_call' = [op |-> "send_begin", by |-> "submit", pool |-> target_pool,
                                 sock |-> pools[target_pool].socket]
                /\ UNCHANGED <<pools, shares_submitted>>
           ELSE /\ shares_submitted' = shares_submitted + 1
                /\ pools' = [pools EXCEPT ![target_pool].share_count = @ + 1]
                /\ pool_call' = [op |-> "submit_share", pool_url |-> pool_url,
                                 pool |-> target_pool, result |-> TRUE, sent |-> FALSE]
                /\ UNCHANGED submits
    /\ UNCHANGED <<pool_order, active_work, connection_threads, pool_running,
                   shares_accepted, shares_rejected, sockets, threads, main, ptime,
                   wire, dispatch_log, recvs>>
    /\ UNCHANGED <<optVars, clusterVars>>

\* the send of the share returns or raises; the counters are incremented and
\* submit_share returns True
submit_share_complete(i, ok) ==
    /\ i \in DOMAIN submits
    /\ ok => sockets[submits[i].sock].state = "open"
    /\ LET call == submits[i]
           ps == IF ok THEN pools ELSE SendFailed(pools, call.pool)
       IN  /\ pools' = [ps EXCEPT ![call.pool].share_count = @ + 1]
           /\ sockets' = IF ok THEN Written(sockets, call.sock, call.message) ELSE sockets
           /\ pool_call' = [op |-> "submit_share", pool_url |-> call.pool_url,
                            pool |-> call.pool, result |-> TRUE, sent |-> ok,
                            sock |-> call.sock, failed |-> ~ok]
    /\ shares_submitted' = shares_submitted + 1
    /\ submits' = RemoveAt(submits, i)
    /\ UNCHANGED <<pool_order, active_work, connection_threads, pool_running,
                   shares_accepted, shares_rejected, threads, main, ptime, wire,
                   dispatch_log, recvs, pool_ops>>
    /\ UNCHANGED <<optVars, clusterVars>>

\* time passes
PoolTick ==
    /\ ptime + RecvTimeout <= MaxPoolTime
    /\ ptime' = ptime + RecvTimeout
    /\ pool_call' = [op |-> "tick"]
    /\ UNCHANGED <<pools, pool_order, active_work, connection_threads, pool_running,
                   shares_submitted, shares_accepted, shares_rejected, sockets, threads,
                   submits, main, wire, dispatch_log, recvs, pool_ops>>
    /\ UNCHANGED <<optVars, clusterVars>>

\* PoolManager.__init__
PoolInit ==
    /\ pools = EmptyDict
    /\ pool_order = <<>>
    /\ active_work = EmptyDict
    /\ connection_threads = EmptyDict
    /\ pool_running = FALSE
    /\ shares_submitted = 0
    /\ shares_accepted = 0
    /\ shares_rejected = 0
    /\ sockets = <<>>
    /\ threads = <<>>
    /\ submits = <<>>
    /\ main = MainIdle
    /\ ptime = StartTime
    /\ wire = NoWire
    /\ dispatch_log = <<>>
    /\ recvs = 0
    /\ pool_ops = 0
    /\ pool_call = NoCall

\* ---- specifications ----
ApiNext ==
       \/ start
       \/ Tick
       \/ \E id \in NodeIds, info \in HardwareInfos : register_node(id, info)
       \/ \E id \in NodeIds : unregister_node_begin(id)
       \/ \E i \in 1..MaxApiCalls : unregister_node_complete(i)
       \/ \E id \in NodeIds, r \in StatusReports : update_node_status(id, r)
       \/ \E id \in NodeIds, a \in Assignments : assign_work_begin(id, a)
       \/ \E i \in 1..MaxApiCalls, success \in BOOLEAN : assign_work_complete(i, success)
       \/ \E k \in 1..MaxImmediate : immediate_rebalance_start(k)
       \/ \E k \in 1..MaxImmediate, ok \in BOOLEAN : immediate_rebalance_resume(k, ok)
       \/ rebalance_loop_wake
       \/ \E ok \in BOOLEAN : rebalance_loop_resume(ok)

Init == OptInit /\ ClusterInit /\ PoolInit

\* the optimizer alone, its efficiencies already moved by earlier feedback; the
\* cluster manager is constructed and idle
InitReached == OptReached /\ ClusterInit /\ PoolInit

SpecEff == InitReached /\ [][EffNext]_vars
SpecSeg == InitReached /\ [][SegNext]_vars

\* the API of the cluster manager and its rebalance tasks, optimizer idle
Spec == Init /\ [][ApiNext]_vars

\* the API together with the health check loop and stop()
ClusterNext ==
       \/ start
       \/ Tick
       \/ \E id \in NodeIds, info \in HardwareInfos : register_node(id, info)
       \/ \E id \in NodeIds : unregister_node_begin(id)
       \/ \E i \in 1..MaxApiCalls : unregister_node_complete(i)
       \/ \E id \in NodeIds, r \in StatusReports : update_node_status(id, r)
       \/ \E id \in NodeIds, a \in Assignments : assign_work_begin(id, a)
       \/ \E i \in 1..MaxApiCalls, success \in BOOLEAN : assign_work_complete(i, success)
       \/ \E k \in 1..MaxImmediate : immediate_rebalance_start(k)
       \/ \E k \in 1..MaxImmediate, ok \in BOOLEAN : immediate_rebalance_resume(k, ok)
       \/ rebalance_loop_wake
       \/ \E ok \in BOOLEAN : rebalance_loop_resume(ok)
       \/ health_pass_start
       \/ \E resp \in PingResponses : ping_complete(resp)
       \/ health_unregister_complete
       \/ stop_begin
       \/ stop_node_complete

SpecCluster == Init /\ [][ClusterNext]_vars

\* the pool client's connections: its callers, its receive threads, the sends
PoolNext ==
       \/ \E c \in PoolConfigs : add_pool(c)
       \/ \E name \in PoolNames, ok \in BOOLEAN : connect_to_pool(name, ok)
       \/ start_pools
       \/ \E ok \in BOOLEAN : start_connect(ok)
       \/ subscribe_begin
       \/ \E ok \in BOOLEAN : subscribe_complete(ok)
       \/ authorize_begin
       \/ \E ok \in BOOLEAN : authorize_complete(ok)
       \/ stop_pools
       \/ \E t \in 1..MaxSockets : handler_start(t)
       \/ \E t \in 1..MaxSockets, kind \in {"eof", "error"} : recv_fail(t, kind)
       \/ \E t \in 1..MaxSockets : recv_timeout(t)
       \/ \E t \in 1..MaxSockets, ok \in BOOLEAN : ping_complete_send(t, ok)
       \/ \E a \in PoolArgs, r \in ShareResults : submit_share_begin(a, r)
       \/ \E i \in 1..MaxSubmits, ok \in BOOLEAN : submit_share_complete(i, ok)
       \/ PoolTick

SpecPool == Init /\ [][PoolNext]_vars

\* a pool after a connect_to_pool whose handshake was written
ConnectedPool(c, k) ==
    [NewPool(c) EXCEPT !.connected = TRUE, !.socket = k]

ConfigOf(name) == CHOOSE c \in PoolConfigs : c.name = name

\* the client after add_pool of both pools and start(): both handshakes are
\* written and both receive threads wait in recv
PoolStarted ==
    /\ pools = [n \in PoolNames |-> ConnectedPool(ConfigOf(n), IF n = "pool" THEN 1 ELSE 2)]
    /\ pool_order = <<"pool", "pool2">>
    /\ active_work = EmptyDict
    /\ connection_threads = [n \in PoolNames |-> IF n = "pool" THEN 1 ELSE 2]
    /\ pool_running = TRUE
    /\ shares_submitted = 0
    /\ shares_accepted = 0
    /\ shares_rejected = 0
    /\ sockets = [k \in 1..2 |->
                    LET n == pool_order[k]
                    IN  [state |-> "open", pool |-> n,
                         out |-> <<SubscribeMessage, AuthorizeMessage(NewPool(ConfigOf(n)))>>]]
    /\ threads = [k \in 1..2 |->
                    [pool |-> pool_order[k], pc |-> "recv", sock |-> k, buffer |-> <<>>,
                     recv_at |-> StartTime, heard |-> StartTime]]
    /\ submits = <<>>
    /\ main = MainIdle
    /\ ptime = StartTime
    /\ wire = NoWire
    /\ dispatch_log = <<>>
    /\ recvs = 0
    /\ pool_ops = 1
    /\ pool_call = [op |-> "handler_start", thread |-> 2, pool |-> "pool2"]

InitStarted == OptInit /\ ClusterInit /\ PoolStarted

\* the started client at work: messages of the pools, the calls of the workers
WorkNext ==
       \/ \E t \in 1..MaxSockets :
             \E m \in Notifies \cup SetDifficulties \cup ErrorNotes
                        \cup {[id |-> i, result |-> r] : i \in {1, 2, StartTime}, r \in BOOLEAN} :
                recv_line(t, m)
       \/ \E t \in 1..MaxSockets, kind \in {"eof", "error"} : recv_fail(t, kind)
       \/ \E a \in PoolArgs : get_work_call(a)
       \/ \E a \in PoolArgs, r \in ShareResults : submit_share_begin(a, r)
       \/ \E i \in 1..MaxSubmits, ok \in BOOLEAN : submit_share_complete(i, ok)

SpecWork == InitStarted /\ [][WorkNext]_vars

\* the lines a pool may put on the wire
WireLines ==
    { Encode([method |-> "mining.notify", job_id |-> "job1", nparams |-> 9, clean_jobs |-> TRUE]),
      Encode([method |-> "mining.set_difficulty", difficulty |-> 2]),
      <<Blank, Byte("{"), Body([id |-> 1, result |-> TRUE]), Byte("}"), Blank, Newline>>,
      <<Byte("{"), Junk, Newline>>,
      <<Junk, BadByte, Newline>>,
      <<Blank, Newline>> }

\* all streams of at most n lines
RECURSIVE Streams(_)
Streams(n) ==
    IF n = 0 THEN {<<>>}
    ELSE Streams(n - 1) \cup {s \o l : s \in Streams(n - 1), l \in WireLines}

\* the started client, the first pool having sent a stream of lines
InitFraming ==
    /\ OptInit /\ ClusterInit
    /\ \E s \in Streams(MaxLines) :
          /\ wire = [sent |-> s, pos |-> 0]
          /\ pools = [n \in PoolNames |-> ConnectedPool(ConfigOf(n), IF n = "pool" THEN 1 ELSE 2)]
          /\ pool_order = <<"pool", "pool2">>
          /\ active_work = EmptyDict
          /\ connection_threads = [n \in PoolNames |-> IF n = "pool" THEN 1 ELSE 2]
          /\ pool_running = TRUE
          /\ shares_submitted = 0
          /\ shares_accepted = 0
          /\ shares_rejected = 0
          /\ sockets = [k \in 1..2 |->
                          LET n == pool_order[k]
                          IN  [state |-> "open", pool |-> n,
                               out |-> <<SubscribeMessage, AuthorizeMessage(NewPool(ConfigOf(n)))>>]]
          /\ threads = [k \in 1..2 |->
                          [pool |-> pool_order[k], pc |-> "recv", sock |-> k, buffer |-> <<>>,
                           recv_at |-> StartTime, heard |-> StartTime]]
          /\ submits = <<>>
          /\ main = MainIdle
          /\ ptime = StartTime
          /\ dispatch_log = <<>>
          /\ recvs = 0
          /\ pool_ops = 1
          /\ pool_call = [op |-> "handler_start", thread |-> 2, pool |-> "pool2"]

\* the receive thread of the first pool reading the stream in pieces
FramingNext == \E n \in 1..Len(wire.sent) : recv_bytes(1, n)

SpecFraming == InitFraming /\ [][FramingNext]_vars

\* ---- a started cluster at the moment its rebalance loop wakes ----
\* a GPU-heavy, a CPU-heavy and a balanced node, and a small CPU-only node
RebalanceIds == <<"gpu", "cpu", "bal", "small">>
HardwareOf(id) ==
    CASE id = "gpu" -> [cpu_cores |-> 4, cpu_threads |-> 8,  gpu_count |-> 4, gpu_memory |-> 32, total_memory |-> 16]
      [] id = "cpu" -> [cpu_cores |-> 16, cpu_threads |-> 32, gpu_count |-> 0, gpu_memory |-> 0, total_memory |-> 64]
      [] id = "bal" -> [cpu_cores |-> 8, cpu_threads |-> 16, gpu_count |-> 1, gpu_memory |-> 8,  total_memory |-> 32]
      [] OTHER      -> [cpu_cores |-> 2, cpu_threads |-> 4,  gpu_count |-> 0, gpu_memory |-> 0,  total_memory |-> 8]

\* a status report of a mining node through the API: every key present
MiningReport(hashrate, temperature, pool) ==
    [has_status |-> TRUE, status |-> "mining", hashrate |-> hashrate, temperature |-> temperature,
     power_usage |-> 100, uptime |-> 10,
     has_algorithm |-> TRUE, algorithm |-> "Ethash", has_pool |-> TRUE, pool |-> pool]

\* metrics attached to a ping response: no status, algorithm or pool key
HotMetrics ==
    [has_status |-> FALSE, status |-> "", hashrate |-> 50, temperature |-> HotReading,
     power_usage |-> 120, uptime |-> 20,
     has_algorithm |-> FALSE, algorithm |-> "", has_pool |-> FALSE, pool |-> ""]

\* the status report of a node that has stopped mining
IdleReport ==
    [has_status |-> TRUE, status |-> "active", hashrate |-> 0, temperature |-> EmptyDict,
     power_usage |-> 0, uptime |-> 30,
     has_algorithm |-> TRUE, algorithm |-> None, has_pool |-> TRUE, pool |-> None]

\* what a registered node can look like when the loop wakes: as registered, or
\* after status reports
NodeSetups(id) ==
    LET fresh == NewNode(HardwareOf(id), 0)
    IN  { fresh,
          ApplyReport(fresh, MiningReport(10, EmptyDict, "poolA"), 0),
          ApplyReport(fresh, MiningReport(50, HotReading, "poolA"), 0),
          ApplyReport(fresh, MiningReport(50, EmptyDict, "poolB"), 0),
          ApplyReport(ApplyReport(fresh, MiningReport(50, EmptyDict, "poolA"), 0), HotMetrics, 0) }

\* start() and three or four register_node calls have run, the immediate
\* rebalances they triggered are over, status reports have come in
InitRebalance ==
    /\ OptInit /\ PoolInit
    /\ \E k \in 3..Len(RebalanceIds) :
          /\ entries = SubSeq(RebalanceIds, 1, k)
          /\ nodes \in [{RebalanceIds[i] : i \in 1..k} -> UNION {NodeSetups(RebalanceIds[i]) : i \in 1..k}]
          /\ \A id \in DOMAIN nodes : nodes[id] \in NodeSetups(id)
    /\ cluster_stats = StatsOf(nodes)
    /\ running = TRUE
    /\ health_check_task = "alive"
    /\ rebalance_task = "alive"
    /\ now = 0
    /\ api_calls = <<>>
    /\ api_ops = 0
    /\ immediate = <<>>
    /\ periodic = TaskSleeping
    /\ health = HealthSleeping
    /\ stopping = StopIdle
    /\ evictions = <<>>
    /\ done = [op |-> "start"]

\* one pass of the rebalance loop, status reports arriving while it awaits a command
RebalanceNext ==
       \/ rebalance_loop_wake
       \/ \E ok \in BOOLEAN : rebalance_loop_resume(ok)
       \/ \E i \in DOMAIN RebalanceIds : update_node_status(RebalanceIds[i], IdleReport)

SpecRebalance == InitRebalance /\ [][RebalanceNext]_vars

(***************************************************************************)
(* AIOptimizer: pool selection and recommendations                         *)
(***************************************************************************)
RecentScores == 5           \* [-5:]
RecentSamples == 10         \* [-10:] and the minimum history of get_recommendations
DefaultHistorical == 50     \* historical_score of a pool without records
ScoreUnit == 60             \* means of 1..5 integers are whole in sixtieths

RECURSIVE SeqSum(_)
SeqSum(s) == IF s = <<>> THEN 0 ELSE Head(s) + SeqSum(Tail(s))

\* s[-n:]
LastN(s, n) == IF Len(s) <= n THEN s ELSE SubSeq(s, Len(s) - n + 1, Len(s))

\* the pool database of _select_optimal_pool: name, fee (hundredths), latency (ms)
PoolTable(algorithm) ==
    CASE algorithm = "RandomX" ->
            << [name |-> "NiceHash", fee |-> 2, latency |-> 55],
               [name |-> "MineXMR",  fee |-> 1, latency |-> 70] >>
      [] algorithm = "Ethash" ->
            << [name |-> "NiceHash",  fee |-> 2, latency |-> 45],
               [name |-> "Ethermine", fee |-> 1, latency |-> 65] >>
      [] OTHER ->
            << [name |-> "NiceHash",   fee |-> 2, latency |-> 50],
               [name |-> "Slush Pool", fee |-> 2, latency |-> 60] >>

\* the first five records instead of the last five
RecentPerformance_First5(perf, name) == SubSeq(perf[name], 1, Min(RecentScores, Len(perf[name])))

\* self.pool_performance[pool["name"]][-5:]
RecentPerformance(perf, name) == LastN(perf[name], RecentScores)

\* historical_score, in sixtieths
HistoricalScore(perf, name) ==
    IF name \in DOMAIN perf /\ RecentPerformance(perf, name) # <<>>
    THEN (ScoreUnit \div Len(RecentPerformance(perf, name))) * SeqSum(RecentPerformance(perf, name))
    ELSE ScoreUnit * DefaultHistorical

\* total_score, in six-hundredths: latency_score * 0.3 + fee_score * 0.4 + historical_score * 0.3
TotalScore(perf, pool) ==
      ScoreUnit * (3 * Max(0, 100 - pool.latency) + 4 * (100 - pool.fee))
    + 3 * HistoricalScore(perf, pool.name)

\* max(pool_scores, key=...): the first pool of the list with the largest score
BestPool(perf, available_pools) ==
    LET i == CHOOSE i \in DOMAIN available_pools :
                 /\ \A j \in DOMAIN available_pools :
                        TotalScore(perf, available_pools[j]) <= TotalScore(perf, available_pools[i])
                 /\ \A j \in 1..(i - 1) :
                        TotalScore(perf, available_pools[j]) < TotalScore(perf, available_pools[i])
    IN  available_pools[i]

Algorithms == {"SHA256", "RandomX", "Ethash", "Scrypt"}

_select_optimal_pool(algorithm) ==
    /\ opt_ops < MaxOptOps
    /\ opt_call' = [op |-> "select_optimal_pool", algorithm |-> algorithm,
                    result |-> BestPool(pool_performance, PoolTable(algorithm))]
    /\ opt_ops' = opt_ops + 1
    /\ UNCHANGED <<worker_efficiency, performance_history, rejection_history,
                   pool_performance, algorithm_performance, active_segments>>
    /\ UNCHANGED <<clusterVars, poolVars>>

\* hardware descriptions: cpu cores, available memory in MiB, number of GPUs
HardwareDescriptions ==
    { [cores |-> c, available_mb |-> a, gpus |-> g] :
        c \in {1, 4}, a \in {1024, 4096}, g \in {0, 1} }

MiBPerThread == 2048        \* RandomX: available_memory_gb // 2

\* AIOptimizer._optimize_worker_configuration
WorkerConfiguration(hardware_info, algorithm) ==
    LET base == Max(1, hardware_info.cores - 1)
    IN  CASE algorithm = "RandomX" ->
                [cpu_threads |-> Min(base, hardware_info.available_mb \div MiBPerThread),
                 gpu_intensity |-> 0]
          [] algorithm = "Ethash" -> [cpu_threads |-> 1, gpu_intensity |-> 100]
          [] algorithm = "SHA256" /\ hardware_info.gpus > 0 ->
                [cpu_threads |-> Max(1, hardware_info.cores \div 2), gpu_intensity |-> 90]
          [] OTHER -> [cpu_threads |-> base, gpu_intensity |-> 80]

_optimize_worker_configuration(hardware_info, algorithm) ==
    /\ opt_ops < MaxOptOps
    /\ opt_call' = [op |-> "optimize_worker_configuration", hardware_info |-> hardware_info,
                    algorithm |-> algorithm,
                    result |-> WorkerConfiguration(hardware_info, algorithm)]
    /\ opt_ops' = opt_ops + 1
    /\ UNCHANGED <<worker_efficiency, performance_history, rejection_history,
                   pool_performance, algorithm_performance, active_segments>>
    /\ UNCHANGED <<clusterVars, poolVars>>

\* the whole history instead of its last ten samples
RecentMetrics_All(history) == history

\* list(self.performance_history)[-10:]
RecentMetrics(history) == LastN(history, RecentSamples)

RECURSIVE HashrateSum(_)
HashrateSum(ms) == IF ms = <<>> THEN 0 ELSE Head(ms).hashrate + HashrateSum(Tail(ms))

\* recent_avg_hashrate * len(recent_metrics)
RecentSum(history) == HashrateSum(RecentMetrics(history))

\* current_hashrate < recent_avg_hashrate * 0.9
PerformanceDeclining(history, cm) ==
    cm.hashrate * 10 * Len(RecentMetrics(history)) < 9 * RecentSum(history)

\* len([m for m in recent_metrics if m.hashrate < recent_avg_hashrate * 0.8]) > 5
ConsistentlyLow(history) ==
    LET recent == RecentMetrics(history)
    IN  Cardinality({i \in DOMAIN recent :
            recent[i].hashrate * 10 * Len(recent) < 8 * RecentSum(history)}) > 5

\* the keys of a defaultdict filled by record_performance, in insertion order
RECURSIVE KeyOrder(_, _, _)
KeyOrder(history, field, seen) ==
    IF history = <<>> THEN <<>>
    ELSE LET k == Head(history)[field]
         IN  IF k = "" \/ k \in seen THEN KeyOrder(Tail(history), field, seen)
             ELSE <<k>> \o KeyOrder(Tail(history), field, seen \cup {k})

\* the loop without the test that skips the current key
RECURSIVE BestOther_AnyKey(_, _, _, _, _, _)
BestOther_AnyKey(keys, perf, current, best, best_sum, best_len) ==
    IF keys = <<>> THEN best
    ELSE LET k == Head(keys)
             recent == LastN(perf[k], RecentScores)
         IN  IF recent # <<>> /\ SeqSum(recent) * best_len > best_sum * Len(recent)
             THEN BestOther_AnyKey(Tail(keys), perf, current, k, SeqSum(recent), Len(recent))
             ELSE BestOther_AnyKey(Tail(keys), perf, current, best, best_sum, best_len)

\* the loop of _recommend_pool_switch and _recommend_algorithm_switch: the first key, other
\* than the current one, whose mean of the last five values is the largest above 0
RECURSIVE BestOther(_, _, _, _, _, _)
BestOther(keys, perf, current, best, best_sum, best_len) ==
    IF keys = <<>> THEN best
    ELSE LET k == Head(keys)
             recent == LastN(perf[k], RecentScores)
         IN  IF k # current /\ recent # <<>> /\ SeqSum(recent) * best_len > best_sum * Len(recent)
             THEN BestOther(Tail(keys), perf, current, k, SeqSum(recent), Len(recent))
             ELSE BestOther(Tail(keys), perf, current, best, best_sum, best_len)

\* None is ""
_recommend_pool_switch(history, perf, cm) ==
    BestOther(KeyOrder(history, "pool", {}), perf, cm.pool, "", 0, 1)

_recommend_algorithm_switch(history, perf, cm) ==
    BestOther(KeyOrder(history, "algorithm", {}), perf, cm.algorithm, "", 0, 1)

RECURSIVE EfficiencySum(_, _)
EfficiencySum(eff, ws) ==
    IF ws = {} THEN 0
    ELSE LET w == CHOOSE w \in ws : TRUE IN eff[w] + EfficiencySum(eff, ws \ {w})

\* underperforming of _recommend_worker_redistribution: efficiency < avg_efficiency * 0.8
Underperforming(eff) ==
    {w \in DOMAIN eff :
        eff[w] * 10 * Cardinality(DOMAIN eff) < 8 * EfficiencySum(eff, DOMAIN eff)}

\* the recommendations dict of get_recommendations; an absent key is FALSE, "" or {}, and none says that
\* no key was set, in which case the call returns None
Advice(history, eff, pperf, aperf, cm) ==
    LET declining == PerformanceDeclining(history, cm)
        pool_switch == declining /\ cm.rejection_rate > 5
        alg_switch == declining /\ ConsistentlyLow(history)
        under == Underperforming(eff)
        hot == MaxTemp(cm.temperature) > TempLimit
    IN  [none |-> ~declining /\ under = {} /\ ~hot,
         performance_declining |-> declining,
         has_switch_pool |-> pool_switch,
         switch_pool |-> IF pool_switch THEN _recommend_pool_switch(history, pperf, cm) ELSE "",
         has_switch_algorithm |-> alg_switch,
         switch_algorithm |-> IF alg_switch THEN _recommend_algorithm_switch(history, aperf, cm) ELSE "",
         redistribute_workers |-> under,
         reduce_intensity |-> hot,
         temperature_warning |-> IF hot THEN MaxTemp(cm.temperature) ELSE 0]

NoRecommendations ==
    [none |-> TRUE, performance_declining |-> FALSE, has_switch_pool |-> FALSE, switch_pool |-> "",
     has_switch_algorithm |-> FALSE, switch_algorithm |-> "", redistribute_workers |-> {},
     reduce_intensity |-> FALSE, temperature_warning |-> 0]

\* current metrics: hashrate, rejection_rate (hundredths), temperature by sensor, pool, algorithm
CurrentMetrics ==
    { [hashrate |-> h, rejection_rate |-> r, temperature |-> t, pool |-> p, algorithm |-> ""] :
        h \in {89, 90}, r \in {0, 6},
        t \in {EmptyDict, [s \in {"gpu0"} |-> TempLimit], [s \in {"cpu", "gpu0"} |-> IF s = "cpu" THEN 40 ELSE 86]},
        p \in {"", "NiceHash"} }

get_recommendations(cm) ==
    /\ opt_ops < MaxOptOps
    /\ opt_call' = [op |-> "get_recommendations", metrics |-> cm,
                    result |-> IF Len(performance_history) < RecentSamples
                               THEN NoRecommendations
                               ELSE Advice(performance_history, worker_efficiency,
                                        pool_performance, algorithm_performance, cm)]
    /\ opt_ops' = opt_ops + 1
    /\ UNCHANGED <<worker_efficiency, performance_history, rejection_history,
                   pool_performance, algorithm_performance, active_segments>>
    /\ UNCHANGED <<clusterVars, poolVars>>

\* a sample a worker-less reporter records: no rejections, so the pool score is the hashrate
Sample(hashrate, pool, algorithm) ==
    [hashrate |-> hashrate, rejection_rate |-> 0, algorithm |-> algorithm, pool |-> pool, worker_id |-> ""]

Repeat(m, n) == [i \in 1..n |-> m]

\* histories recorded before the calls explored
Histories ==
    { <<>>,
      Repeat(Sample(100, "NiceHash", "SHA256"), 9),
      Repeat(Sample(100, "NiceHash", "SHA256"), 10),
      <<Sample(2000, "NiceHash", "SHA256")>> \o Repeat(Sample(0, "NiceHash", "SHA256"), 10),
      Repeat(Sample(100, "Slush Pool", "SHA256"), 10),
      Repeat(Sample(120, "NiceHash", "SHA256"), 5) \o Repeat(Sample(100, "Ethermine", "Ethash"), 5) }

\* rejections recorded before the calls explored: none, many for w1, one each, both
RejectionsBefore ==
    LET r(w) == [worker_id |-> w, algorithm |-> "SHA256", reason |-> "unknown"]
    IN  { <<>>,
          Repeat(r("w1"), ManyRejections),
          <<r("w1"), r("w2")>>,
          Repeat(r("w1"), ManyRejections) \o <<r("w2")>> }

\* what record_performance appended under one key: the values kept for the samples with that key
RECURSIVE Kept(_, _, _, _)
Kept(history, field, key, pool_score) ==
    IF history = <<>> THEN <<>>
    ELSE LET m == Head(history)
             v == IF pool_score THEN (m.hashrate * (100 - m.rejection_rate)) \div 100 ELSE m.hashrate
         IN  (IF m[field] = key THEN <<v>> ELSE <<>>) \o Kept(Tail(history), field, key, pool_score)

\* self.pool_performance after record_performance was called with each sample of a history
PoolPerformanceOf(history) ==
    [p \in {history[i].pool : i \in DOMAIN history} \ {""} |-> Kept(history, "pool", p, TRUE)]

\* self.algorithm_performance after the same calls
AlgorithmPerformanceOf(history) ==
    [a \in {history[i].algorithm : i \in DOMAIN history} \ {""} |-> Kept(history, "algorithm", a, FALSE)]

\* an efficiency after n more rejections
RECURSIVE Penalised(_, _)
Penalised(e, n) == IF n = 0 THEN e ELSE Penalised(RejectionPenalty(e), n - 1)

\* self.worker_efficiency after record_rejection was called for each entry
EfficiencyAfter(rejections) ==
    [w \in {rejections[i].worker_id : i \in DOMAIN rejections} |->
        Penalised(EffScale, Cardinality({i \in DOMAIN rejections : rejections[i].worker_id = w}))]

\* the optimizer after earlier record_performance and record_rejection calls
OptAdvised ==
    /\ \E history \in Histories, rejections \in RejectionsBefore :
          /\ performance_history = history
          /\ rejection_history = rejections
          /\ pool_performance = PoolPerformanceOf(history)
          /\ algorithm_performance = AlgorithmPerformanceOf(history)
          /\ worker_efficiency = EfficiencyAfter(rejections)
    /\ active_segments = EmptyDict
    /\ opt_call = NoCall
    /\ opt_ops = 0

InitAdvise == OptAdvised /\ ClusterInit /\ PoolInit

AdviseSamples ==
    { Sample(100, "NiceHash", "SHA256"), Sample(0, "Slush Pool", "SHA256"),
      Sample(60, "Ethermine", "Ethash") }

\* pool selection and recommendations over the recorded telemetry
AdviseNext ==
    \/ \E m \in AdviseSamples : record_performance(m)
    \/ \E algorithm \in Algorithms : _select_optimal_pool(algorithm)
    \/ \E cm \in CurrentMetrics : get_recommendations(cm)
    \/ \E hw \in HardwareDescriptions, algorithm \in Algorithms :
          _optimize_worker_configuration(hw, algorithm)

SpecAdvise == InitAdvise /\ [][AdviseNext]_vars

(***************************************************************************)
(* PoolManager.submit_share called by several mining worker threads: the   *)
(* two `+= 1` are a read and a write with no lock around them              *)
(***************************************************************************)
\* a submit_share call of a worker thread: where it is, the value it has read, what it returned
ShareCall(pool_url, target_pool, pc, message) ==
    [pool_url |-> pool_url, pool |-> target_pool, pc |-> pc, reg |-> 0, result |-> FALSE,
     sock |-> IF target_pool = "" THEN NoSocket ELSE pools[target_pool].socket,
     message |-> message]

ShareFrame ==
    /\ UNCHANGED <<pool_order, active_work, connection_threads, pool_running, shares_accepted,
                   shares_rejected, threads, main, ptime, wire, dispatch_log, recvs, pool_ops>>
    /\ UNCHANGED <<optVars, clusterVars>>

\* submit_share up to socket.send: False for an unknown or disconnected pool
share_call(pool_url, result) ==
    /\ Len(submits) < MaxShareCalls
    /\ LET target_pool == FindPool(pools, pool_order, pool_url)
           message == IF target_pool = "" THEN <<>>
                      ELSE SubmitMessage(pools[target_pool], result, ptime)
       IN  submits' = Append(submits,
               IF target_pool = "" \/ ~pools[target_pool].connected
               THEN ShareCall(pool_url, target_pool, "returned", message)
               ELSE IF CanSend(pools, target_pool)
               THEN ShareCall(pool_url, target_pool, "send", message)
               ELSE ShareCall(pool_url, target_pool, "load_submitted", message))
    /\ pool_call' = [op |-> "share_call", pool_url |-> pool_url]
    /\ UNCHANGED <<pools, sockets, shares_submitted>>
    /\ ShareFrame

\* socket.send returns or raises inside _send_json_message
share_send_return(i, ok) ==
    /\ i \in DOMAIN submits
    /\ submits[i].pc = "send"
    /\ ok => sockets[submits[i].sock].state = "open"
    /\ pools' = IF ok THEN pools ELSE SendFailed(pools, submits[i].pool)
    /\ sockets' = IF ok THEN Written(sockets, submits[i].sock, submits[i].message) ELSE sockets
    /\ submits' = [submits EXCEPT ![i].pc = "load_submitted"]
    /\ pool_call' = [op |-> "share_send", call |-> i, sent |-> ok]
    /\ UNCHANGED shares_submitted
    /\ ShareFrame

\* self.shares_submitted += 1: the read
share_load_submitted(i) ==
    /\ i \in DOMAIN submits
    /\ submits[i].pc = "load_submitted"
    /\ submits' = [submits EXCEPT ![i].pc = "store_submitted", ![i].reg = shares_submitted]
    /\ pool_call' = [op |-> "share_load_submitted", call |-> i]
    /\ UNCHANGED <<pools, sockets, shares_submitted>>
    /\ ShareFrame

\* self.shares_submitted += 1: the write
share_store_submitted(i) ==
    /\ i \in DOMAIN submits
    /\ submits[i].pc = "store_submitted"
    /\ shares_submitted' = submits[i].reg + 1
    /\ submits' = [submits EXCEPT ![i].pc = "load_count"]
    /\ pool_call' = [op |-> "share_store_submitted", call |-> i]
    /\ UNCHANGED <<pools, sockets>>
    /\ ShareFrame

\* target_pool.share_count += 1: the read
share_load_count(i) ==
    /\ i \in DOMAIN submits
    /\ submits[i].pc = "load_count"
    /\ submits' = [submits EXCEPT ![i].pc = "store_count",
                                  ![i].reg = pools[submits[i].pool].share_count]
    /\ pool_call' = [op |-> "share_load_count", call |-> i]
    /\ UNCHANGED <<pools, sockets, shares_submitted>>
    /\ ShareFrame

\* target_pool.share_count += 1: the write, and return True
share_store_count(i) ==
    /\ i \in DOMAIN submits
    /\ submits[i].pc = "store_count"
    /\ pools' = [pools EXCEPT ![submits[i].pool].share_count = submits[i].reg + 1]
    /\ submits' = [submits EXCEPT ![i].pc = "returned", ![i].result = TRUE]
    /\ pool_call' = [op |-> "share_returned", call |-> i]
    /\ UNCHANGED <<sockets, shares_submitted>>
    /\ ShareFrame

\* the started client with worker threads submitting shares
SharesNext ==
    \/ \E a \in PoolArgs, r \in ShareResults : share_call(a, r)
    \/ \E i \in 1..MaxShareCalls, ok \in BOOLEAN : share_send_return(i, ok)
    \/ \E i \in 1..MaxShareCalls : share_load_submitted(i)
    \/ \E i \in 1..MaxShareCalls : share_store_submitted(i)
    \/ \E i \in 1..MaxShareCalls : share_load_count(i)
    \/ \E i \in 1..MaxShareCalls : share_store_count(i)

SpecShares == InitStarted /\ [][SharesNext]_vars

(***************************************************************************)
(* Properties                                                              *)
(***************************************************************************)

\* the segments start at s, each starts where the previous one ends, the last ends at e
Tiles(segs, s, e) ==
    /\ Len(segs) >= 1
    /\ segs[1].nonce_start = s
    /\ \A i \in 1..(Len(segs) - 1) : segs[i + 1].nonce_start = segs[i].nonce_end
    /\ segs[Len(segs)].nonce_end = e

\* C1: the segments returned by segment_work are consecutive, non-overlapping
\* and cover exactly [nonce_start, nonce_end) of the work unit.
C1_SegmentsTileRange ==
    opt_call.op = "segment_work" =>
        Tiles(opt_call.result, opt_call.work.nonce_start, opt_call.work.nonce_end)

\* C2: every worker's efficiency stays in [0.1, 2.0]; a record_rejection never
\* increases the reporting worker's efficiency and a clean record_performance
\* (rejection_rate < 0.02) never decreases it.
C2_EfficiencyFeedback ==
    /\ \A w \in DOMAIN worker_efficiency :
          EffFloor <= worker_efficiency[w] /\ worker_efficiency[w] <= EffCeil
    /\ opt_call.op = "record_rejection" =>
          GetEfficiency(worker_efficiency, opt_call.worker) <= opt_call.before
    /\ (opt_call.op = "record_performance" /\ opt_call.worker # ""
            /\ opt_call.rejection_rate < CleanRate) =>
          GetEfficiency(worker_efficiency, opt_call.worker) >= opt_call.before

\* a clean sample raised a worker's efficiency after a rejection had been recorded
C2_Witness ==
    /\ opt_call.op = "record_performance"
    /\ opt_call.worker # ""
    /\ opt_call.rejection_rate < CleanRate
    /\ GetEfficiency(worker_efficiency, opt_call.worker) > opt_call.before
    /\ rejection_history # <<>>

Range(s) == {s[i] : i \in DOMAIN s}

\* C3: after unregister_node(id) the node is gone from the status output and
\* every segment id it held when the call began is held by a remaining node
\* (the manager keeps no other store of segments awaiting reassignment).
C3_UnregisterKeepsSegments ==
    (done.op = "unregister_node" /\ done.found /\ ~done.raised) =>
        /\ \A i \in DOMAIN get_cluster_status.nodes :
              get_cluster_status.nodes[i].node_id # done.id
        /\ \A seg \in Range(done.held) :
              \E n \in DOMAIN nodes : seg \in Range(nodes[n].work_segments)

\* the rebalances that are between their analysis and the end of their batch
RebalancesInProgress ==
    Cardinality({k \in DOMAIN immediate : immediate[k].pc = "apply"})
      + (IF periodic.pc = "apply" THEN 1 ELSE 0)

\* C4: at most one rebalance, periodic or immediate, is in progress at any time.
C4_OneRebalanceAtATime == RebalancesInProgress <= 1

\* the fields of ClusterStats the registry determines
StatsView(st) ==
    <<st.total_nodes, st.active_nodes, st.total_hashrate, st.total_power,
      st.algorithms_running, st.pools_connected>>

CompletedOps ==
    {"register_node", "unregister_node", "update_node_status", "assign_work",
     "health_pass", "stop"}

\* C5: after every completed operation cluster_stats equals the value
\* recomputed from the current node map.
C5_StatsMatchNodes ==
    done.op \in CompletedOps => StatsView(cluster_stats) = StatsView(StatsOf(nodes))

\* C6: when a health-check pass ends, every node it found timed out has been
\* removed by that pass (or is gone from the registry anyway), and
\* active_nodes counts only the registered nodes that are active or mining.
C6_TimedOutNodeEvicted ==
    done.op \in {"health_pass", "health_abort"} =>
        /\ Range(done.marked) \subseteq Range(done.evicted) \cup (NodeIds \ DOMAIN nodes)
        /\ cluster_stats.active_nodes = StatsOf(nodes).active_nodes

\* C7: after register_node of an id that was not registered, the status
\* output lists the node exactly once, with status active, and
\* stats.total_nodes is one greater than before the call.
C7_RegisterNewNode ==
    (done.op = "register_node" /\ ~done.existed) =>
        LET st == get_cluster_status
            listed == {i \in DOMAIN st.nodes : st.nodes[i].node_id = done.id}
        IN  /\ Cardinality(listed) = 1
            /\ \A i \in listed : st.nodes[i].node.status = "active"
            /\ st.stats.total_nodes = done.total_before + 1

\* a second node has just been registered next to an existing one
C7_Witness ==
    /\ done.op = "register_node"
    /\ ~done.existed
    /\ done.total_before = 1
    /\ Cardinality(DOMAIN nodes) = 2

\* C8: register_node with an id that is already registered replaces the
\* hardware fields and leaves the runtime metrics as they were.
C8_ReRegisterKeepsMetrics ==
    (done.op = "register_node" /\ done.existed) =>
        /\ nodes[done.id].hardware = done.info
        /\ nodes[done.id].hashrate = done.before.hashrate
        /\ nodes[done.id].temperature = done.before.temperature
        /\ nodes[done.id].power_usage = done.before.power_usage
        /\ nodes[done.id].uptime = done.before.uptime
        /\ nodes[done.id].assigned_algorithm = done.before.assigned_algorithm
        /\ nodes[done.id].assigned_pool = done.before.assigned_pool
        /\ nodes[done.id].work_segments = done.before.work_segments

\* C9: assign_work returns true only when the command succeeded, and then the
\* node it read carries the assignment and status mining; when the id is
\* unknown or the command fails it returns false and no node changes.
C9_AssignWorkStep ==
    done'.op = "assign_work" =>
        IF done'.result
        THEN /\ done'.found
             /\ \A n \in DOMAIN nodes : n # done'.id => nodes'[n] = nodes[n]
             /\ ~done'.orphan =>
                   /\ nodes'[done'.id].assigned_algorithm = done'.assignment.algorithm
                   /\ nodes'[done'.id].assigned_pool = done'.assignment.pool
                   /\ nodes'[done'.id].work_segments = done'.assignment.work_segments
                   /\ nodes'[done'.id].status = "mining"
        ELSE nodes' = nodes
C9_AssignWork == [][C9_AssignWorkStep]_vars

\* assign_work has returned false for a registered node that was mining already
C9_Witness ==
    /\ done.op = "assign_work"
    /\ done.found
    /\ ~done.result
    /\ done.id \in DOMAIN nodes
    /\ nodes[done.id].status = "mining"

\* C10: every node whose status is mining has a non-empty assigned algorithm
\* and a non-empty assigned pool.
C10_MiningHasAssignment ==
    \A n \in DOMAIN nodes :
        nodes[n].status = "mining" =>
            Truthy(nodes[n].assigned_algorithm) /\ Truthy(nodes[n].assigned_pool)

\* C11: update_node_status with an id that is not registered changes neither
\* the node map (nor its iteration order) nor cluster_stats.
C11_UnknownStatusStep ==
    (done'.op = "update_node_status" /\ ~done'.found) =>
        /\ nodes' = nodes
        /\ entries' = entries
        /\ cluster_stats' = cluster_stats
C11_UnknownStatusNoOp == [][C11_UnknownStatusStep]_vars

\* a report for an unknown id has arrived while another node is registered and
\* cluster_stats is behind the node map
C11_Witness ==
    /\ done.op = "update_node_status"
    /\ ~done.found
    /\ DOMAIN nodes # {}
    /\ StatsView(cluster_stats) # StatsView(StatsOf(nodes))

\* C12: submit_share returns true exactly when the mining.submit message was
\* written to the pool's socket.
C12_SubmitTrueIffSent ==
    pool_call.op = "submit_share" => (pool_call.result <=> pool_call.sent)

\* C13: the accepted and rejected shares never outnumber the submitted ones.
C13_SharesCorrelate == shares_accepted + shares_rejected <= shares_submitted

\* the JSON objects among the complete lines of a byte stream, in order
RECURSIVE JsonLines(_)
JsonLines(bytes) ==
    LET i == FirstNewline(bytes, 1)
        line == SubSeq(bytes, 1, i - 1)
    IN  IF i = 0 THEN <<>>
        ELSE (IF ~DecodeFails(line) /\ IsJson(line) THEN <<Parsed(line)>> ELSE <<>>)
               \o JsonLines(SubSeq(bytes, i + 1, Len(bytes)))

\* C14: however the stream is split across recv calls, the connection stays
\* up and exactly the lines that are JSON have been dispatched, once each and
\* in arrival order.
C14_FramingSurvivesBadLines ==
    pool_call.op = "recv" =>
        /\ pools[pool_call.pool].connected
        /\ threads[pool_call.thread].pc = "recv"
        /\ dispatch_log = JsonLines(SubSeq(wire.sent, 1, wire.pos))

\* C15, as claimed: after a socket error or a timeout in recv the receive loop
\* has ended and the pool is disconnected, and after a failed send the pool is
\* disconnected.
C15_ErrorOrTimeoutDisconnects ==
    /\ pool_call.op \in {"recv_error", "recv_timeout"} =>
          /\ ~pools[pool_call.pool].connected
          /\ threads[pool_call.thread].pc = "ended"
    /\ ("failed" \in DOMAIN pool_call /\ pool_call.failed) => ~pools[pool_call.pool].connected

\* C15, amended: a socket error in recv other than a timeout ends the loop
\* and disconnects the pool; a failed send disconnects the pool; a receive
\* thread that finds the pool disconnected when it tests its loop condition
\* ends; only connect_to_pool makes a disconnected pool connected.
C15_ErrorDisconnectsStep ==
    /\ pool_call'.op = "recv_error" =>
          /\ ~pools'[pool_call'.pool].connected
          /\ threads'[pool_call'.thread].pc = "ended"
    /\ ("failed" \in DOMAIN pool_call' /\ pool_call'.failed) =>
          ~pools'[pool_call'.pool].connected
    /\ ("thread" \in DOMAIN pool_call' /\ threads'[pool_call'.thread].pc \in {"recv", "ping"}) =>
          pools'[pool_call'.pool].connected
    /\ \A p \in DOMAIN pools :
          (~pools[p].connected /\ pools'[p].connected) => pool_call'.op = "connected"
C15_ErrorDisconnects == [][C15_ErrorDisconnectsStep]_vars

\* a send has failed on a pool whose receive thread is waiting in recv
C15_Witness ==
    /\ "failed" \in DOMAIN pool_call
    /\ pool_call.failed
    /\ ~pools[pool_call.pool].connected
    /\ \E t \in DOMAIN threads : threads[t].pool = pool_call.pool /\ threads[t].pc = "recv"

\* C16: each pool has at most one running receive loop and at most one open socket.
C16_OneLoopOneSocket ==
    \A p \in DOMAIN pools :
        /\ Cardinality({t \in DOMAIN threads :
                           threads[t].pool = p /\ threads[t].pc \in {"recv", "ping"}}) <= 1
        /\ Cardinality({k \in DOMAIN sockets :
                           sockets[k].pool = p /\ sockets[k].state = "open"}) <= 1

\* C17: no two sends are inside socket.send on the same socket at the same time.
C17_WritesSerialized == \A k \in DOMAIN sockets : WritersOn(k) <= 1

\* C18: when connect_to_pool has returned true, the first two messages written
\* to the socket it opened are mining.subscribe (id 1) and mining.authorize
\* (id 2, [username, password]), and the receive thread has been started.
C18_HandshakeFirst ==
    (pool_call.op = "connect_to_pool" /\ pool_call.result) =>
        LET out == sockets[pool_call.created].out
            pool == pools[pool_call.pool]
        IN  /\ Len(out) >= 2
            /\ out[1] = [id |-> 1, method |-> "mining.subscribe", params |-> <<"HpcMiner/1.0", "None">>]
            /\ out[2] = [id |-> 2, method |-> "mining.authorize",
                         params |-> <<pool.username, pool.password>>]
            /\ pool_call.pool \in DOMAIN connection_threads

\* C19: get_work for a pool that is connected and has received work returns
\* that pool's latest work unit with the nonce range 0 .. 0xFFFFFFFF, and none
\* for a pool that is disconnected or has no work yet.
C19_GetWorkLatest ==
    pool_call.op = "get_work" =>
        LET pool == pools[pool_call.pool_url]
        IN  IF pool.connected /\ pool.last_work # NoWork
            THEN /\ pool_call.result # NoWork
                 /\ pool_call.result.job_id = pool.last_work.job_id
                 /\ pool_call.result.pool_name = pool_call.pool_url
                 /\ pool_call.result.nonce_start = 0
                 /\ pool_call.result.nonce_end = NonceEndAll
            ELSE pool_call.result = NoWork

\* the keys of the work units the client holds for a pool
WorkHeldFor(p) == {k \in DOMAIN active_work : k[1] = p}

\* C20: after a clean mining.notify the pool's stored work is the new work
\* unit and it is the only work unit the client holds for that pool.
C20_NotifyReplacesWork ==
    (pool_call.op = "recv" /\ Len(pool_call.dispatched) = 1) =>
        LET m == pool_call.dispatched[1]
            p == pool_call.pool
        IN  ("method" \in DOMAIN m /\ m.method = "mining.notify" /\ m.nparams >= 7
                /\ m.clean_jobs) =>
               /\ pools[p].last_work # NoWork
               /\ pools[p].last_work.job_id = m.job_id
               /\ WorkHeldFor(p) = {<<p, m.job_id>>}

C22_StopNodesBeforeCancel ==
    stopping.pc = "stop_node" =>
        /\ health_check_task # "cancelled"
        /\ rebalance_task # "cancelled"

\* the commands of a finished batch that went to a node, and what they asked for
Steered(log, id, algorithm) ==
    \E i \in DOMAIN log :
        /\ log[i].command.node = id
        /\ log[i].command.command \in {"switch_algorithm", "assign_work"}
        /\ log[i].command.param = algorithm

\* C23: when the rebalance cycle over the freshly registered GPU-heavy,
\* CPU-heavy and balanced nodes has finished, the GPU-heavy node has been sent
\* Ethash and the CPU-heavy node RandomX.
C23_HardwareSteering ==
    ( /\ done.op = "rebalance"
      /\ done.by = "periodic"
      /\ DOMAIN nodes = {"gpu", "cpu", "bal"}
      /\ \A id \in DOMAIN nodes : nodes[id] = NewNode(HardwareOf(id), 0) )
    => /\ Steered(done.sent, "gpu", "Ethash")
       /\ Steered(done.sent, "cpu", "RandomX")

\* the nodes the commands of recommendation j of a finished batch went to, in order
SentFor(log, j) ==
    LET mine == SelectSeq(log, LAMBDA e : e.rec = j)
    IN  [i \in DOMAIN mine |-> mine[i].command.node]

\* C27: when a batch has finished, its commands were sent in the order of the
\* recommendations, and every recommendation was applied to its nodes whether
\* or not earlier commands failed.
C27_BatchSurvivesFailures ==
    done.op = "rebalance" =>
        /\ \A i, j \in DOMAIN done.sent : i < j => done.sent[i].rec <= done.sent[j].rec
        /\ \A j \in DOMAIN done.batch :
              IF done.batch[j].type = "pool_rebalance"
              THEN Len(SentFor(done.sent, j)) <= done.batch[j].nodes_to_move
              ELSE SentFor(done.sent, j) = done.batch[j].nodes

\* a command failed and a later recommendation of the batch was still applied
C27_Witness ==
    /\ done.op = "rebalance"
    /\ \E i, j \in DOMAIN done.sent :
          /\ i < j
          /\ ~done.sent[i].ok
          /\ done.sent[i].rec < done.sent[j].rec

\* the step in which the periodic loop wakes, and the batch it computes in it
Woke == periodic.pc = "sleep" /\ done'.op \in {"rebalance", "command"}
WokeBatch == IF periodic'.pc = "apply" THEN periodic'.batch ELSE done'.batch

\* C28: the batch a rebalance computes has, for every registered node whose
\* highest temperature is above 85, a reduce_intensity recommendation naming
\* exactly that node.
C28_HotNodeStep ==
    Woke =>
        \A id \in DOMAIN nodes :
            MaxTemp(nodes[id].temperature) > TempLimit =>
                \E j \in DOMAIN WokeBatch :
                    WokeBatch[j].type = "reduce_intensity" /\ WokeBatch[j].nodes = <<id>>
C28_HotNodesGetReduceIntensity == [][C28_HotNodeStep]_vars

\* the mining nodes on a pool, and the pools that have mining nodes
MiningOn(ns, p) == {n \in DOMAIN ns : ns[n].status = "mining" /\ ns[n].assigned_pool = p}
UsedPools(ns) == {ns[n].assigned_pool : n \in {m \in DOMAIN ns : ns[m].status = "mining" /\ Truthy(ns[m].assigned_pool)}}
Imbalanced(ns) ==
    \E p, q \in UsedPools(ns) : Cardinality(MiningOn(ns, p)) > 2 * Cardinality(MiningOn(ns, q))

\* the batch has a pool_rebalance exactly when the loads are imbalanced
C29_EmittedWhenImbalanced ==
    Woke =>
        /\ (\E j \in DOMAIN WokeBatch : WokeBatch[j].type = "pool_rebalance") <=> Imbalanced(nodes)
        /\ \A j \in DOMAIN WokeBatch :
              WokeBatch[j].type = "pool_rebalance" =>
                 \A p \in UsedPools(nodes) :
                    /\ Cardinality(MiningOn(nodes, WokeBatch[j].from_pool)) >= Cardinality(MiningOn(nodes, p))
                    /\ Cardinality(MiningOn(nodes, WokeBatch[j].to_pool)) <= Cardinality(MiningOn(nodes, p))

\* a switch_pool goes to a lowest-hashrate mining node of a pool that a
\* pool_rebalance of the batch moves from, and names the pool it moves to
C29_MovesLowest ==
    (done'.op = "command" /\ done'.command = "switch_pool") =>
        \E j \in DOMAIN periodic'.batch :
            LET rec == periodic'.batch[j]
            IN  /\ rec.type = "pool_rebalance"
                /\ done'.param = rec.to_pool
                /\ done'.node \in MiningOn(nodes, rec.from_pool)
                /\ \A n \in MiningOn(nodes, rec.from_pool) : nodes[done'.node].hashrate <= nodes[n].hashrate

\* C29, as claimed: pool_rebalance is emitted exactly when the busiest pool has
\* more than twice the mining nodes of the least busy one, and applying it
\* sends switch_pool to exactly one node, the lowest-hashrate mining node of
\* the busiest pool.
C29_ExactlyOneStep ==
    /\ C29_EmittedWhenImbalanced
    /\ C29_MovesLowest
    /\ done'.op = "rebalance" =>
          \A j \in DOMAIN done'.batch :
              done'.batch[j].type = "pool_rebalance" => Len(SentFor(done'.sent, j)) = 1
C29_PoolRebalanceMovesOne == [][C29_ExactlyOneStep]_vars

\* the recommendation the periodic task is at before and after a step of it
\* (0: not started, one past the batch: finished)
RecBefore == IF periodic.pc = "apply" THEN Len(periodic.batch) - Len(periodic.recs) + 1 ELSE 0
RecAfter ==
    IF periodic'.pc = "apply" THEN Len(periodic'.batch) - Len(periodic'.recs) + 1
    ELSE Len(done'.batch) + 1

\* a pool_rebalance that the step reaches while a node is mining on its
\* from_pool sends a switch_pool
C29_MovesWhenPossible ==
    done'.op \in {"rebalance", "command"} =>
        \A j \in DOMAIN WokeBatch :
            ( /\ RecBefore < j
              /\ j <= RecAfter
              /\ WokeBatch[j].type = "pool_rebalance"
              /\ MiningOn(nodes, WokeBatch[j].from_pool) # {} )
            => /\ RecAfter = j
               /\ done'.op = "command"
               /\ done'.command = "switch_pool"

\* C29, amended: pool_rebalance is emitted exactly when the busiest pool has
\* more than twice the mining nodes of the least busy one; applying it sends
\* switch_pool, naming the least busy pool, to the lowest-hashrate node that
\* is mining on the busiest pool at that moment, and to no node when none is.
C29_AtMostOneStep ==
    /\ C29_EmittedWhenImbalanced
    /\ C29_MovesLowest
    /\ C29_MovesWhenPossible
    /\ done'.op = "rebalance" =>
          \A j \in DOMAIN done'.batch :
              done'.batch[j].type = "pool_rebalance" => Len(SentFor(done'.sent, j)) <= 1
C29_PoolRebalanceMovesLowest == [][C29_AtMostOneStep]_vars

\* a batch with a pool_rebalance has finished and one node was moved
C29_Witness ==
    /\ done.op = "rebalance"
    /\ \E j \in DOMAIN done.batch :
          /\ done.batch[j].type = "pool_rebalance"
          /\ Len(SentFor(done.sent, j)) = 1

\* the score the selection rule names, in six-hundredths: 0.3 * max(0, 100 - latency) +
\* 0.4 * (1 - fee) * 100 + 0.3 * history, history the mean of the last 5 recorded scores or 50
C24_History(name) ==
    LET scores == IF name \in DOMAIN pool_performance THEN pool_performance[name] ELSE <<>>
        last == LastN(scores, 5)
    IN  IF last = <<>> THEN 60 * 50 ELSE (60 * SeqSum(last)) \div Len(last)

C24_Score(pool) ==
    180 * Max(0, 100 - pool.latency) + 240 * (100 - pool.fee) + 3 * C24_History(pool.name)

C24_PoolA == [name |-> "A", fee |-> 1, latency |-> 40]
C24_PoolB == [name |-> "B", fee |-> 2, latency |-> 80]

\* C24: pool selection returns a candidate of the algorithm's pool list whose score is the
\* highest of the list; without history the pool with fee 0.01 and latency 40 ms wins over
\* the pool with fee 0.02 and latency 80 ms, whichever comes first in the list
C24_HighestScoreSelected ==
    opt_call.op = "select_optimal_pool" =>
        LET candidates == PoolTable(opt_call.algorithm)
        IN  /\ \E i \in DOMAIN candidates : candidates[i] = opt_call.result
            /\ \A i \in DOMAIN candidates : C24_Score(candidates[i]) <= C24_Score(opt_call.result)
            /\ ("A" \notin DOMAIN pool_performance /\ "B" \notin DOMAIN pool_performance) =>
                  /\ BestPool(pool_performance, <<C24_PoolA, C24_PoolB>>) = C24_PoolA
                  /\ BestPool(pool_performance, <<C24_PoolB, C24_PoolA>>) = C24_PoolA

\* a selection decided by the history: NiceHash, first of the list and ahead without history,
\* has more than 5 records and loses
C24_Witness ==
    /\ opt_call.op = "select_optimal_pool"
    /\ opt_call.algorithm = "SHA256"
    /\ "NiceHash" \in DOMAIN pool_performance
    /\ Len(pool_performance["NiceHash"]) > 5
    /\ opt_call.result.name = "Slush Pool"

\* the triggers of a recommendation
C30_Declining(cm) ==
    cm.hashrate * 100 < 9 * HashrateSum(LastN(performance_history, 10))

C30_WeakWorker ==
    \E w \in DOMAIN worker_efficiency :
        worker_efficiency[w] * 10 * Cardinality(DOMAIN worker_efficiency)
            < 8 * EfficiencySum(worker_efficiency, DOMAIN worker_efficiency)

C30_Hot(cm) == \E s \in DOMAIN cm.temperature : cm.temperature[s] > 85

\* C30: get_recommendations returns nothing with fewer than 10 recorded samples, and with 10
\* or more it returns nothing exactly when the hashrate is not below 0.9 x the mean of the
\* last 10 samples, no worker is below 0.8 x the mean efficiency and no temperature is above 85
C30_NoneIffNoTrigger ==
    opt_call.op = "get_recommendations" =>
        (opt_call.result.none <=>
            \/ Len(performance_history) < 10
            \/ ~(C30_Declining(opt_call.metrics) \/ C30_WeakWorker \/ C30_Hot(opt_call.metrics)))

\* more than 10 samples, the older ones far above the current hashrate, and no trigger
C30_Witness ==
    /\ opt_call.op = "get_recommendations"
    /\ Len(performance_history) > 10
    /\ performance_history[1].hashrate > opt_call.metrics.hashrate
    /\ opt_call.result.none

\* 0x00000000FFFF followed by 52 zero digits, less the 51 zero digits the unit drops
C25_Diff1Digits == <<0, 0, 0, 0, 0, 0, 0, 0, 15, 15, 15, 15, 0>>

\* C25: a work unit built at difficulty 1 carries the difficulty-1 target 0x00000000FFFF0..0,
\* one built at difficulty 2 carries exactly half that integer, each 64 hex digits wide
C25_TargetOfDifficulty ==
    \A k \in DOMAIN active_work :
        /\ Len(active_work[k].target) + 51 = 64
        /\ active_work[k].difficulty = 1 => active_work[k].target = C25_Diff1Digits
        /\ active_work[k].difficulty = 2 =>
              2 * FromHex(active_work[k].target) = FromHex(C25_Diff1Digits)

\* work was built after mining.set_difficulty raised the difficulty to 2
C25_Witness == \E k \in DOMAIN active_work : active_work[k].difficulty = 2

\* a node record with the fields a status update may refresh blanked
C26_Rest(node) ==
    [node EXCEPT !.last_seen = 0, !.hashrate = 0, !.temperature = EmptyDict, !.power_usage = 0,
                 !.uptime = 0, !.assigned_algorithm = "", !.assigned_pool = ""]

C26_UpdateStep ==
    (done'.op = "update_node_status" /\ api_ops' = api_ops + 1 /\ done'.found) =>
        /\ DOMAIN nodes' = DOMAIN nodes
        /\ \A id \in DOMAIN nodes :
              IF id = done'.id THEN C26_Rest(nodes'[id]) = C26_Rest(nodes[id])
              ELSE nodes'[id] = nodes[id]

\* C26: update_node_status for a registered node changes nothing but last_seen, hashrate,
\* temperature, power usage, uptime and the assigned algorithm and pool: the status, the
\* hardware fields and the work segments of the node are as before, and so is every other node
C26_StatusUpdateKeepsStatus == [][C26_UpdateStep]_vars

\* the mean of a pool's last 5 recorded scores is at most that of another pool
C31_NotBetter(p, q) ==
    LET a == LastN(pool_performance[p], 5)
        b == LastN(pool_performance[q], 5)
    IN  SeqSum(a) * Len(b) <= SeqSum(b) * Len(a)

\* C31: get_recommendations sets switch_pool only when the current hashrate is below 0.9 x the
\* mean of the last 10 samples and the current rejection rate is above 0.05; a pool it names
\* is a recorded pool other than the current one, and no other recorded pool except the
\* current one has a better mean of its last 5 scores
C31_SwitchPoolNamesBestOther ==
    opt_call.op = "get_recommendations" =>
        LET cm == opt_call.metrics
            r == opt_call.result
        IN  /\ (r.has_switch_pool \/ r.switch_pool # "") =>
                  /\ Len(performance_history) >= 10
                  /\ cm.hashrate * 100 < 9 * HashrateSum(LastN(performance_history, 10))
                  /\ cm.rejection_rate > 5
            /\ r.switch_pool # "" =>
                  /\ r.switch_pool # cm.pool
                  /\ r.switch_pool \in DOMAIN pool_performance
                  /\ \A p \in DOMAIN pool_performance \ {cm.pool} : C31_NotBetter(p, r.switch_pool)

\* a pool is named although the current pool has the better record
C31_Witness ==
    /\ opt_call.op = "get_recommendations"
    /\ opt_call.result.switch_pool # ""
    /\ opt_call.metrics.pool \in DOMAIN pool_performance
    /\ ~C31_NotBetter(opt_call.metrics.pool, opt_call.result.switch_pool)

\* the health loop returns from the stop_mining command of an eviction and deletes the node
C32_Evicts ==
    /\ health.pc = "unregister"
    /\ health' # health
    /\ health.id \in DOMAIN nodes
    /\ health.id \notin DOMAIN nodes'

C32_EvictionStep == C32_Evicts => now - nodes[health.id].last_seen > node_timeout

\* C32: the health loop removes a node only if its last_seen is older than node_timeout at
\* the moment of the removal; a status update that arrives after the node was marked
\* unresponsive and before the removal completes keeps the node registered
C32_EvictOnlyStaleNodes == [][C32_EvictionStep]_vars

\* C33: a health-check pass ends, whatever was registered or unregistered while it was
\* suspended in a ping, with every node it found timed out evicted: at the end of a pass no
\* node it marked is still registered unless the pass itself removed it before
C33_PassEvictsWhatItMarked ==
    done.op \in {"health_pass", "health_abort"} =>
        \A k \in DOMAIN done.marked :
            \/ done.marked[k] \notin DOMAIN nodes
            \/ \E e \in DOMAIN done.evicted : done.evicted[e] = done.marked[k]

\* C34: an unregister_node call that overlapped another removal of the same node, both
\* suspended in the stop_mining command, completes without raising
C34_OverlappingUnregisterCompletes == done.op = "unregister_node" => ~done.raised

\* C35: when connect_to_pool has returned true the pool has a running receive loop: the
\* thread the call started for it has not ended, whether or not start() has set running
C35_ConnectedMeansLoopRuns ==
    (pool_call.op = "connect_to_pool" /\ pool_call.result) =>
        /\ pool_call.pool \in DOMAIN connection_threads
        /\ threads[connection_threads[pool_call.pool]].pc # "ended"

\* C36: get_work and submit_share act on the pool their argument names: work that get_work
\* returns is work of that pool, and a share submit_share accepts is sent to and counted
\* for that pool, never another configured pool
C36_CallsActOnNamedPool ==
    /\ (pool_call.op = "submit_share" /\ pool_call.result) => pool_call.pool = pool_call.pool_url
    /\ (pool_call.op = "get_work" /\ pool_call.result # NoWork) =>
          pool_call.result.pool_name = pool_call.pool_url

\* the submit_share calls that returned true, all of them or those for one pool
C39_Returned(ps) ==
    Cardinality({i \in DOMAIN submits :
        submits[i].pc = "returned" /\ submits[i].result /\ submits[i].pool \in ps})

\* C39: once the submit_share calls of the worker threads have returned, shares_submitted and
\* each pool's share_count equal the number of calls that returned true, under every
\* interleaving of the threads
C39_NoLostShares ==
    (\A i \in DOMAIN submits : submits[i].pc = "returned") =>
        /\ shares_submitted = C39_Returned(DOMAIN pools)
        /\ \A p \in DOMAIN pools : pools[p].share_count = C39_Returned({p})

C37_SegmentStep ==
    (opt_call'.op = "segment_work" /\ opt_ops' = opt_ops + 1) =>
        \A id \in DOMAIN active_segments :
            id \in DOMAIN active_segments' /\ active_segments'[id] = active_segments[id]

\* C37: segment_work gives its segments ids that no tracked segment has: every segment that
\* was tracked before the call, such as the unfinished ones of the worker's earlier work
\* unit, is still tracked afterwards with the same work and range
C37_TrackedSegmentsKept == [][C37_SegmentStep]_vars

\* C38: the worker configuration produced for a hardware description and an algorithm has at
\* least one cpu thread, whatever the RandomX memory cap is
C38_AtLeastOneThread ==
    opt_call.op = "optimize_worker_configuration" => opt_call.result.cpu_threads >= 1

====
